---- MODULE Spec2Model ----
(***************************************************************************)
(* Dexter task scheduler: the Task -> MicroUnit -> Execution store, the    *)
(* "next action" selection, the start / complete transitions of            *)
(* TaskManager and the bot handlers that drive them.                       *)
(*                                                                         *)
(* The store is the PostgreSQL database seen through the single SQLAlchemy *)
(* session of TaskManager.  Every operation ends in session.commit(), so   *)
(* each action is one committed transaction.  Primary keys come from the   *)
(* serial sequences of the tables, which never hand out an id twice, also  *)
(* not after a DELETE.                                                     *)
(***************************************************************************)
EXTENDS Integers, Sequences, FiniteSets, TLC

VARIABLES
    tasks,          \* tasks table: id -> [status, priority]
    micro_units,    \* micro_units table: id -> [task_id, sequence_order, status]
    executions,     \* executions table: id -> [micro_unit_id, success]
    task_seq,       \* last value of the tasks.id sequence
    unit_seq,       \* last value of the micro_units.id sequence
    exec_seq,       \* last value of the executions.id sequence
    result,         \* what the last operation returned / said
    completed,      \* history: ids u for which complete_micro_unit(u) has returned
                    \* after marking an existing unit
    needs_rollback, \* the session's transaction failed and was not rolled back yet
    user_states,    \* TelegramBot.user_states: user id -> conversation state
    dump_cache,     \* TelegramBot.dump_cache: dump hash -> results
    tts_cache,      \* TelegramBot.tts_cache: text hash -> path of the audio file
    media,          \* the audio files the media directory holds
    offset,         \* TelegramBot.offset: updates consumed so far
    update,         \* the message of the last update: [user_id, text]
    outbox,         \* the voice messages sent while handling the last update
    oracle_calls,   \* OpenAI calls made while handling the last update
    polling         \* run_polling: the updates waiting at Telegram (queue, next_id),
                    \* the batch being iterated (updates), self.running, where the
                    \* loop is (pc), history: the update ids given to handle_message
                    \* (handled) and those for which it logged an error (failed)

\* The state of the bot around the TaskManager
bot == <<user_states, dump_cache, tts_cache, media, offset, update, outbox, oracle_calls,
         polling>>

vars == <<tasks, micro_units, executions, task_seq, unit_seq, exec_seq, result, completed,
          needs_rollback, bot>>

store == <<tasks, micro_units, executions>>

----------------------------------------------------------------------------
(* Bounds of the model *)

MaxTasks == 2       \* ids the tasks.id sequence hands out in a run
MaxUnits == 2       \* ids the micro_units.id sequence hands out in a run
MaxExecs == 1       \* ids the executions.id sequence hands out in a run
MaxLog == 2         \* the same, in the runs that repeat complete_micro_unit (LogSpec)
MaxUpdates == 4     \* updates the bot consumes in a run
MaxStamp == 2       \* audio files made for one text in a run

(* Program constants *)

NoUnit == 0                 \* get_next_action's None; ids start at 1
DefaultPriority == 50       \* calculate_priority_with_cost's fallback
SearchLimit == 5            \* LIMIT 5 of _find_similar_existing_tasks
RankThreshold == 1          \* r[2] > 0.1, with ranks counted in tenths
MinPriority == 1
MaxPriority == 100

NoSeq == 0                  \* a decomposed unit without a "sequence_order" key

\* Scores the priority oracle answers with (before the clamp), and the
\* sequence_order values the decomposition oracle answers with.
RawScores == {150}
SeqOrders == {1}

ADMIN_USER_ID == 1          \* the configured admin's Telegram user id
OtherUserId == 2            \* the id of some other Telegram user
NoArgs == 0                 \* a command text without arguments
CallCost == 1               \* what one answered OpenAI call costs; a failed call costs 0
FishCost == 1               \* what one synthesis costs

\* unit ids a caller may pass: every id of the table and one id that is not in it
CallIds == (DOMAIN micro_units) \cup {unit_seq + 1}

----------------------------------------------------------------------------
(* database.py: the session factory *)

\* sessionmaker(autocommit=False, autoflush=False, ...): a Query does not
\* flush the session's dirty objects before it runs.
autoflush == FALSE

\* The rows a Query sees: the database's rows, with the session's unflushed
\* changes applied only when the session autoflushes.
QueryRows(db_rows, session_rows) == IF autoflush THEN session_rows ELSE db_rows

----------------------------------------------------------------------------
(* task_manager.py: get_next_action, and telegram.py: get_pending_tasks *)

\* Variant of PendingRows: the filter on MicroUnit.status is missing.
PendingRows_AnyUnitStatus(T, U) ==
    {u \in DOMAIN U :
        /\ U[u].task_id \in DOMAIN T
        /\ T[U[u].task_id].status \in {"pending", "active"}}

\* .join(Task).filter(MicroUnit.status == 'pending')
\*            .filter(Task.status.in_(['pending', 'active']))
PendingRows(T, U) ==
    {u \in DOMAIN U :
        /\ U[u].task_id \in DOMAIN T
        /\ U[u].status = "pending"
        /\ T[U[u].task_id].status \in {"pending", "active"}}

\* Variant of SortsBefore: Task.priority ascending.
SortsBefore_PriorityAsc(T, U, a, b) ==
    \/ T[U[a].task_id].priority < T[U[b].task_id].priority
    \/ /\ T[U[a].task_id].priority = T[U[b].task_id].priority
       /\ U[a].sequence_order < U[b].sequence_order

\* .order_by(Task.priority.desc(), MicroUnit.sequence_order.asc()):
\* row a sorts strictly before row b
SortsBefore(T, U, a, b) ==
    \/ T[U[a].task_id].priority > T[U[b].task_id].priority
    \/ /\ T[U[a].task_id].priority = T[U[b].task_id].priority
       /\ U[a].sequence_order < U[b].sequence_order

\* The rows .first() / [0] may yield: ORDER BY fixes no order among rows
\* with equal keys, so any row that no other row sorts before can come first.
FirstRows(T, U) ==
    {u \in PendingRows(T, U) :
        \A v \in PendingRows(T, U) : ~SortsBefore(T, U, v, u)}

\* What get_next_action may return on the store <<T, U>>.
NextActionResults(T, U) ==
    IF PendingRows(T, U) = {} THEN {NoUnit} ELSE FirstRows(T, U)

\* What get_pending_tasks may return (.all()): the pending rows in an order
\* that respects the ORDER BY keys.
PendingLists(T, U) ==
    LET rows == PendingRows(T, U)
        n == Cardinality(rows)
    IN  {s \in [1..n -> rows] :
            /\ \A i, j \in 1..n : i # j => s[i] # s[j]
            /\ \A i, j \in 1..n : i < j => ~SortsBefore(T, U, s[j], s[i])}

----------------------------------------------------------------------------
(* openai.py: the oracle clients.  An oracle answer is [ok, ...]: ok is    *)
(* FALSE when the call raised or its answer could not be parsed.           *)

PriorityAnswers ==
    {[ok |-> FALSE, score |-> 0]} \cup {[ok |-> TRUE, score |-> s] : s \in RawScores}

Min(a, b) == IF a < b THEN a ELSE b
Max(a, b) == IF a > b THEN a ELSE b

\* calculate_priority_with_cost: max(1, min(100, score)), 50 when the call fails
CalculatePriority(answer) ==
    IF answer.ok THEN Max(MinPriority, Min(MaxPriority, answer.score))
    ELSE DefaultPriority

\* One decomposed unit as the oracle writes it: its sequence_order or NoSeq.
UnitData == SeqOrders \cup {NoSeq}

\* Lists of at most n decomposed units
UnitDataLists(n) == UNION {[1..k -> UnitData] : k \in 0..n}

\* What the decomposition oracle may answer with, in lists of at most n units
DecomposeAnswersUpTo(n) ==
    {[ok |-> FALSE, units |-> <<>>]}
        \cup {[ok |-> TRUE, units |-> l] : l \in UnitDataLists(n)}

DecomposeAnswers == DecomposeAnswersUpTo(MaxUnits - unit_seq)

\* decompose_task_with_cost: the parsed list, [] when the call fails
DecomposeTask(answer) == IF answer.ok THEN answer.units ELSE <<>>

\* What the oracles answer for one candidate of a dump, and the answers for
\* a dump of at most n candidates (parse_task_dump_with_cost yields [] when
\* the parse call fails).
Candidates == [priority : PriorityAnswers, decompose : DecomposeAnswers]
ParsedDumps(n) == UNION {[1..k -> Candidates] : k \in 0..n}

----------------------------------------------------------------------------
(* task_manager.py: process_dump_with_cost and its helpers *)

\* Task(content, priority): status defaults to 'pending' (models.py)
NewTask(priority) == [status |-> "pending", priority |-> priority]

\* MicroUnit(task_id, sequence_order=unit_data.get("sequence_order", i + 1)):
\* status defaults to 'pending' (models.py)
NewMicroUnit(task_id, unit_data, i) ==
    [task_id |-> task_id,
     sequence_order |-> IF unit_data = NoSeq THEN i ELSE unit_data,
     status |-> "pending"]

\* _decompose_task: one MicroUnit per decomposed unit, ids in list order
DecomposeRows(task_id, micro_data, last_unit_id) ==
    [u \in (last_unit_id + 1)..(last_unit_id + Len(micro_data)) |->
        NewMicroUnit(task_id, micro_data[u - last_unit_id], u - last_unit_id)]

\* Variant of CreateAll: the loop ends at the first candidate for which an
\* oracle call failed.
RECURSIVE CreateAll_StopsAtFailure(_, _, _)
CreateAll_StopsAtFailure(parsed_tasks, k, acc) ==
    IF k > Len(parsed_tasks) THEN acc
    ELSE IF ~parsed_tasks[k].priority.ok \/ ~parsed_tasks[k].decompose.ok THEN acc
    ELSE LET cand == parsed_tasks[k]
             task_id == acc.task_seq + 1
             micro_data == DecomposeTask(cand.decompose)
             rows == DecomposeRows(task_id, micro_data, acc.unit_seq)
         IN  CreateAll_StopsAtFailure(parsed_tasks, k + 1,
                 [tasks |-> acc.tasks @@ (task_id :> NewTask(CalculatePriority(cand.priority))),
                  micro_units |-> acc.micro_units @@ rows,
                  task_seq |-> task_id,
                  unit_seq |-> acc.unit_seq + Len(micro_data),
                  new_tasks |-> acc.new_tasks + 1,
                  total_micro_units |-> acc.total_micro_units + Len(micro_data)])

\* The for loop of process_dump_with_cost over parsed_tasks, from candidate k:
\* acc is [tasks, micro_units, task_seq, unit_seq, new_tasks, total_micro_units].
RECURSIVE CreateAll(_, _, _)
CreateAll(parsed_tasks, k, acc) ==
    IF k > Len(parsed_tasks) THEN acc
    ELSE LET cand == parsed_tasks[k]
             task_id == acc.task_seq + 1
             micro_data == DecomposeTask(cand.decompose)
             rows == DecomposeRows(task_id, micro_data, acc.unit_seq)
         IN  CreateAll(parsed_tasks, k + 1,
                 [tasks |-> acc.tasks @@ (task_id :> NewTask(CalculatePriority(cand.priority))),
                  micro_units |-> acc.micro_units @@ rows,
                  task_seq |-> task_id,
                  unit_seq |-> acc.unit_seq + Len(micro_data),
                  new_tasks |-> acc.new_tasks + 1,
                  total_micro_units |-> acc.total_micro_units + Len(micro_data)])

\* Units a dump would create
RECURSIVE UnitsOfDump(_, _)
UnitsOfDump(parsed_tasks, k) ==
    IF k > Len(parsed_tasks) THEN 0
    ELSE Len(DecomposeTask(parsed_tasks[k].decompose)) + UnitsOfDump(parsed_tasks, k + 1)

NoResult ==
    [op |-> "init", id |-> NoUnit, success |-> FALSE, ok |-> FALSE,
     unit |-> NoUnit, list |-> <<>>, say |-> "", log |-> "",
     new_tasks |-> 0, total_micro_units |-> 0]

\* process_dump_with_cost(dump_text) when the parse oracle yields
\* parsed_tasks: create every candidate's task and units, commit once.
ProcessDumpWithCostOn(parsed_tasks) ==
        /\ task_seq + Len(parsed_tasks) <= MaxTasks
        /\ unit_seq + UnitsOfDump(parsed_tasks, 1) <= MaxUnits
        /\ LET acc == CreateAll(parsed_tasks, 1,
                        [tasks |-> tasks, micro_units |-> micro_units,
                         task_seq |-> task_seq, unit_seq |-> unit_seq,
                         new_tasks |-> 0, total_micro_units |-> 0])
           IN  /\ tasks' = acc.tasks
               /\ micro_units' = acc.micro_units
               /\ task_seq' = acc.task_seq
               /\ unit_seq' = acc.unit_seq
               /\ result' = [NoResult EXCEPT !.op = "process_dump",
                                             !.new_tasks = acc.new_tasks,
                                             !.total_micro_units = acc.total_micro_units]
        /\ UNCHANGED <<executions, exec_seq, completed>>

\* process_dump_with_cost(dump_text)
ProcessDumpWithCost ==
    \E parsed_tasks \in ParsedDumps(MaxTasks - task_seq) :
        ProcessDumpWithCostOn(parsed_tasks)

----------------------------------------------------------------------------
(* task_manager.py: get_next_action, start_micro_unit, complete_micro_unit *)

\* Variant of GetNextAction: the returned unit is marked active on the way out.
GetNextAction_Activating ==
    /\ \E next_unit \in NextActionResults(tasks, micro_units) :
        /\ result' = [NoResult EXCEPT !.op = "get_next_action", !.unit = next_unit]
        /\ micro_units' = IF next_unit = NoUnit THEN micro_units
                          ELSE [micro_units EXCEPT ![next_unit].status = "active"]
    /\ UNCHANGED <<tasks, executions, task_seq, unit_seq, exec_seq, completed>>

\* get_next_action(): the first row of the query, or None; nothing is written.
GetNextAction ==
    /\ \E next_unit \in NextActionResults(tasks, micro_units) :
            result' = [NoResult EXCEPT !.op = "get_next_action", !.unit = next_unit]
    /\ UNCHANGED <<tasks, micro_units, executions, task_seq, unit_seq, exec_seq, completed>>

\* Variant of StartReturn: the check of the unit's status is missing.
StartReturn_NoStatusCheck(micro_unit_id) ==
    IF micro_unit_id \notin DOMAIN micro_units THEN [ok |-> FALSE, log |-> "not found"]
    ELSE [ok |-> TRUE, log |-> "Started"]

\* The return value and the log line of start_micro_unit(micro_unit_id)
StartReturn(micro_unit_id) ==
    IF micro_unit_id \notin DOMAIN micro_units THEN [ok |-> FALSE, log |-> "not found"]
    ELSE IF micro_units[micro_unit_id].status # "pending"
         THEN [ok |-> FALSE, log |-> "is not pending"]
         ELSE [ok |-> TRUE, log |-> "Started"]

\* micro_unit.status = 'active'
StartUnits(micro_unit_id) ==
    [micro_units EXCEPT ![micro_unit_id].status = "active"]

\* Variant of StartTasks: the owning task is left as it is.
StartTasks_TaskUntouched(micro_unit_id) == tasks

\* micro_unit.task.status = 'active'
StartTasks(micro_unit_id) ==
    [tasks EXCEPT ![micro_units[micro_unit_id].task_id].status = "active"]

\* start_micro_unit(micro_unit_id)
StartMicroUnit ==
    \E micro_unit_id \in CallIds :
        /\ result' = [NoResult EXCEPT !.op = "start", !.id = micro_unit_id,
                                      !.ok = StartReturn(micro_unit_id).ok,
                                      !.log = StartReturn(micro_unit_id).log]
        /\ IF StartReturn(micro_unit_id).ok
           THEN /\ micro_units' = StartUnits(micro_unit_id)
                /\ tasks' = StartTasks(micro_unit_id)
           ELSE UNCHANGED <<tasks, micro_units>>
        /\ UNCHANGED <<executions, task_seq, unit_seq, exec_seq, completed>>

\* Variant of MarkComplete: only completed_at is set, the status is left.
MarkComplete_StatusKept(micro_unit_id) == micro_units

\* MicroUnit.mark_complete (models.py): status = 'complete' on the session's object
MarkComplete(micro_unit_id) ==
    [micro_units EXCEPT ![micro_unit_id].status = "complete"]

\* Execution(micro_unit_id=micro_unit_id, success=success, ...)
NewExecution(micro_unit_id, success) ==
    [micro_unit_id |-> micro_unit_id, success |-> success]

\* remaining_units: the count query over the micro_units rows the query sees,
\* run after mark_complete and before the commit.
RemainingUnits(micro_unit_id) ==
    LET rows == QueryRows(micro_units, MarkComplete(micro_unit_id))
    IN  Cardinality({u \in DOMAIN rows :
            /\ rows[u].task_id = micro_units[micro_unit_id].task_id
            /\ rows[u].status = "pending"})

\* Variant of CascadeTasks: the task is completed whatever the count says.
CascadeTasks_Unconditional(micro_unit_id) ==
    [tasks EXCEPT ![micro_units[micro_unit_id].task_id].status = "complete"]

\* if remaining_units == 0: micro_unit.task.status = 'complete'
CascadeTasks(micro_unit_id) ==
    IF RemainingUnits(micro_unit_id) = 0
    THEN [tasks EXCEPT ![micro_units[micro_unit_id].task_id].status = "complete"]
    ELSE tasks

\* Variant of CompleteCommit: a failed attempt leaves the unit as it was.
CompleteCommit_OnlyOnSuccess(micro_unit_id, success) ==
    [tasks |-> IF success THEN CascadeTasks(micro_unit_id) ELSE tasks,
     micro_units |-> IF success THEN MarkComplete(micro_unit_id) ELSE micro_units,
     executions |-> executions @@ ((exec_seq + 1) :> NewExecution(micro_unit_id, success)),
     exec_seq |-> exec_seq + 1]

\* Variant of CompleteCommit: a unit that is already complete gets no new
\* Execution row.
CompleteCommit_LogOnce(micro_unit_id, success) ==
    [tasks |-> CascadeTasks(micro_unit_id),
     micro_units |-> MarkComplete(micro_unit_id),
     executions |-> IF micro_units[micro_unit_id].status = "complete" THEN executions
                    ELSE executions @@ ((exec_seq + 1) :> NewExecution(micro_unit_id, success)),
     exec_seq |-> exec_seq + 1]

\* The store complete_micro_unit(micro_unit_id, success) commits for an existing unit
CompleteCommit(micro_unit_id, success) ==
    [tasks |-> CascadeTasks(micro_unit_id),
     micro_units |-> MarkComplete(micro_unit_id),
     executions |-> executions @@ ((exec_seq + 1) :> NewExecution(micro_unit_id, success)),
     exec_seq |-> exec_seq + 1]

\* The writes of complete_micro_unit, shared with the /done handler
DoComplete(micro_unit_id, success) ==
    IF micro_unit_id \notin DOMAIN micro_units
    THEN UNCHANGED <<tasks, micro_units, executions, exec_seq, completed>>
    ELSE /\ tasks' = CompleteCommit(micro_unit_id, success).tasks
         /\ micro_units' = CompleteCommit(micro_unit_id, success).micro_units
         /\ executions' = CompleteCommit(micro_unit_id, success).executions
         /\ exec_seq' = CompleteCommit(micro_unit_id, success).exec_seq
         /\ completed' = completed \cup {micro_unit_id}

\* The tables session.commit() writes to when it flushes the work of
\* complete_micro_unit, in the order of the flush (parents first); the
\* COMMIT follows the last statement.
FlushOrder == <<"tasks", "micro_units", "executions">>

\* What the transaction of complete_micro_unit holds after the first n
\* statements of its flush
CompleteWork(micro_unit_id, success, n) ==
    [tasks |-> IF n >= 1 THEN CompleteCommit(micro_unit_id, success).tasks ELSE tasks,
     micro_units |-> IF n >= 2 THEN CompleteCommit(micro_unit_id, success).micro_units
                     ELSE micro_units,
     executions |-> IF n >= 3 THEN CompleteCommit(micro_unit_id, success).executions
                    ELSE executions]

\* Variant of Aborted: every statement is committed as it is executed.
Aborted_Autocommit(committed, work) == work

\* sessionmaker(autocommit=False, ...): of a transaction that raised before
\* its COMMIT was done the database keeps nothing, it holds the rows of the
\* last commit
Aborted(committed, work) == committed

\* complete_micro_unit(micro_unit_id, success) raises for an existing unit:
\* a query fails before the flush (n = 0), or statement n + 1 of the flush
\* fails (the COMMIT itself, for n = 3).  The executions.id sequence keeps
\* the id an executed INSERT has drawn.
CompleteRaises(micro_unit_id, success, n) ==
    /\ tasks' = Aborted(tasks, CompleteWork(micro_unit_id, success, n).tasks)
    /\ micro_units' = Aborted(micro_units, CompleteWork(micro_unit_id, success, n).micro_units)
    /\ executions' = Aborted(executions, CompleteWork(micro_unit_id, success, n).executions)
    /\ exec_seq' = IF n >= 3 THEN exec_seq + 1 ELSE exec_seq
    /\ UNCHANGED <<task_seq, unit_seq, completed>>

\* complete_micro_unit(micro_unit_id, success) raising, while the
\* executions.id sequence has handed out fewer than cap ids.  On a session
\* that awaits a rollback the first query raises.
CompleteMicroUnitRaisesWithin(cap) ==
    \E micro_unit_id \in DOMAIN micro_units, success \in BOOLEAN,
       n \in 0..Len(FlushOrder) :
        /\ needs_rollback => n = 0
        /\ n = Len(FlushOrder) => exec_seq < cap
        /\ CompleteRaises(micro_unit_id, success, n)
        /\ result' = [NoResult EXCEPT !.op = "complete_raised", !.id = micro_unit_id,
                                      !.success = success]
        /\ needs_rollback' = TRUE

\* complete_micro_unit(micro_unit_id, success), while the executions.id
\* sequence has handed out fewer than cap ids
CompleteMicroUnitWithin(cap) ==
    \E micro_unit_id \in CallIds, success \in BOOLEAN :
        /\ micro_unit_id \in DOMAIN micro_units => exec_seq < cap
        /\ DoComplete(micro_unit_id, success)
        /\ result' = [NoResult EXCEPT !.op = "complete", !.id = micro_unit_id,
                                      !.success = success,
                                      !.ok = (micro_unit_id \in DOMAIN micro_units)]
        /\ UNCHANGED <<task_seq, unit_seq>>

\* complete_micro_unit(micro_unit_id, success)
CompleteMicroUnit == CompleteMicroUnitWithin(MaxExecs)

----------------------------------------------------------------------------
(* telegram.py: the handlers that read or write the store *)

\* pending_units[:n]
Take(s, n) == SubSeq(s, 1, Min(n, Len(s)))

\* handle_tasks_command(chat_id): every pending unit's description, in order
HandleTasksCommand ==
    /\ \E pending_units \in PendingLists(tasks, micro_units) :
            result' = IF pending_units = <<>>
                      THEN [NoResult EXCEPT !.op = "tasks", !.say = "No pending tasks"]
                      ELSE [NoResult EXCEPT !.op = "tasks", !.say = "descriptions",
                                            !.list = pending_units]
    /\ UNCHANGED <<tasks, micro_units, executions, task_seq, unit_seq, exec_seq, completed>>

\* handle_task_command(chat_id, count): the first count pending units
HandleTaskCommandWith(count) ==
    /\ \E pending_units \in PendingLists(tasks, micro_units) :
            result' = IF pending_units = <<>>
                      THEN [NoResult EXCEPT !.op = "task", !.say = "No pending tasks"]
                      ELSE [NoResult EXCEPT !.op = "task", !.say = "descriptions",
                                            !.list = Take(pending_units, count)]
    /\ UNCHANGED <<tasks, micro_units, executions, task_seq, unit_seq, exec_seq, completed>>

\* handle_task_command for the counts a caller may ask for
HandleTaskCommand == \E count \in 1..MaxUnits : HandleTaskCommandWith(count)

\* handle_done_command(chat_id): complete pending_units[0], then say the
\* description of the new first pending unit
HandleDoneCommand ==
    \E first_task \in NextActionResults(tasks, micro_units) :
        IF first_task = NoUnit
        THEN /\ result' = [NoResult EXCEPT !.op = "done", !.say = "No tasks to complete"]
             /\ UNCHANGED <<tasks, micro_units, executions, task_seq, unit_seq,
                            exec_seq, completed>>
        ELSE /\ exec_seq < MaxExecs
             /\ DoComplete(first_task, TRUE)
             /\ \E next_task \in NextActionResults(tasks', micro_units') :
                    result' = IF next_task = NoUnit
                              THEN [NoResult EXCEPT !.op = "done", !.id = first_task,
                                                    !.success = TRUE, !.say = "No more tasks"]
                              ELSE [NoResult EXCEPT !.op = "done", !.id = first_task,
                                                    !.success = TRUE, !.say = "descriptions",
                                                    !.list = <<next_task>>]
             /\ UNCHANGED <<task_seq, unit_seq>>

\* Variant of HandleClearCommand: only the Task rows are deleted.
HandleClearCommand_TasksOnly ==
    /\ tasks' = <<>>
    /\ result' = [NoResult EXCEPT !.op = "clear", !.say = "All tasks cleared"]
    /\ UNCHANGED <<micro_units, executions, task_seq, unit_seq, exec_seq, completed>>

\* Variant of HandleClearCommand: only the Execution rows are deleted.
HandleClearCommand_ExecutionsOnly ==
    /\ executions' = <<>>
    /\ result' = [NoResult EXCEPT !.op = "clear", !.say = "All tasks cleared"]
    /\ UNCHANGED <<tasks, micro_units, task_seq, unit_seq, exec_seq, completed>>

\* handle_clear_command(chat_id): delete every Execution, MicroUnit and Task row
HandleClearCommand ==
    /\ executions' = <<>>
    /\ micro_units' = <<>>
    /\ tasks' = <<>>
    /\ result' = [NoResult EXCEPT !.op = "clear", !.say = "All tasks cleared"]
    /\ UNCHANGED <<task_seq, unit_seq, exec_seq, completed>>


----------------------------------------------------------------------------
(* telegram.py: message texts, send_voice_message and the two caches *)

Users == {ADMIN_USER_ID, OtherUserId}

\* A message text: slash says whether it starts with "/", word is its first
\* word without the slash, args the digits after it (NoArgs if none).
CommandWords == {"start", "dump", "tasks", "task", "done", "clear", "tts"}

Texts ==
    {[slash |-> TRUE, word |-> w, args |-> NoArgs] : w \in CommandWords \cup {"help"}}
        \cup {[slash |-> TRUE, word |-> "task", args |-> MaxUnits]}
        \cup {[slash |-> FALSE, word |-> "buy milk", args |-> NoArgs]}

NoText == [slash |-> FALSE, word |-> "", args |-> NoArgs]

\* No update was consumed yet (user ids start at 1)
NoUpdate == [user_id |-> 0, text |-> NoText]

\* The texts handed to send_voice_message: a fixed phrase, the descriptions
\* of the listed units, the "Created N tasks with M units" summary, or the
\* text of a message.
Phrase(say) ==
    [say |-> say, list |-> <<>>, new_tasks |-> 0, total_micro_units |-> 0, text |-> NoText]

Created(results) ==
    [Phrase("Created tasks with units") EXCEPT
        !.new_tasks = results.new_tasks,
        !.total_micro_units = results.total_micro_units]

FreeText(text) == [Phrase("") EXCEPT !.text = text]

\* What a store handler said, as the text it handed to send_voice_message
SaidBy(r) == [Phrase(r.say) EXCEPT !.list = r.list]

\* preprocess_text: only letters, dots, commas and single spaces are kept;
\* the slash and every digit go.
preprocess_text(text) ==
    [text EXCEPT !.new_tasks = 0, !.total_micro_units = 0,
                 !.text = [slash |-> FALSE, word |-> text.text.word, args |-> NoArgs]]

\* if not clean_text
IsEmptyText(clean_text) ==
    clean_text.say = "" /\ clean_text.list = <<>> /\ clean_text.text.word = ""

\* get_text_hash: the md5 digest of the text it is given
get_text_hash(text) == [md5 |-> text]

\* FishClient.text_to_mp3_with_cost(clean_text): the path of the file it
\* writes and the cost.  The path carries the time of the call, so it is a
\* path no earlier call has produced: the stamp after the one the cache
\* holds for the text, if it holds one.
text_to_mp3_with_cost(cache, text_hash, clean_text) ==
    [mp3_path |-> [text |-> clean_text,
                   stamp |-> IF text_hash \in DOMAIN cache
                             THEN cache[text_hash].stamp + 1 ELSE 1],
     fish_cost |-> FishCost]

\* Variant of CachedAudio: the file is not looked for.
CachedAudio_FileUnchecked(cache, files, text_hash) == text_hash \in DOMAIN cache

\* text_hash in self.tts_cache and os.path.exists(self.tts_cache[text_hash])
CachedAudio(cache, files, text_hash) ==
    text_hash \in DOMAIN cache /\ cache[text_hash] \in files

\* send_voice_message(chat_id, text, openai_cost) on the cache and the media
\* files as they are; synthesized says whether the TTS call, if one is
\* made, yields an mp3.  Yields the voice messages sent (the text and the
\* two costs of the caption), the cache and the files afterwards, and
\* whether the TTS service was called.
send_voice_message(cache, files, text, openai_cost, synthesized) ==
    LET clean_text == preprocess_text(text)
        text_hash == get_text_hash(clean_text)
        made == text_to_mp3_with_cost(cache, text_hash, clean_text)
    IN  IF IsEmptyText(clean_text)
        THEN [sent |-> <<>>, cache |-> cache, files |-> files, called |-> FALSE]
        ELSE IF CachedAudio(cache, files, text_hash)
        THEN [sent |-> <<[text |-> text, fish_cost |-> 0, openai_cost |-> openai_cost]>>,
              cache |-> cache, files |-> files, called |-> FALSE]
        ELSE IF synthesized
        THEN [sent |-> <<[text |-> text, fish_cost |-> made.fish_cost,
                          openai_cost |-> openai_cost]>>,
              cache |-> (text_hash :> made.mp3_path) @@ cache,
              files |-> files \cup {made.mp3_path}, called |-> TRUE]
        ELSE [sent |-> <<>>, cache |-> cache, files |-> files, called |-> TRUE]

\* The send_voice_message calls of one handler, in order, from call k;
\* synth says whether the TTS service answers while the handler runs.
RECURSIVE SendAll(_, _, _, _)
SendAll(says, synth, k, acc) ==
    IF k > Len(says) THEN acc
    ELSE LET r == send_voice_message(acc.cache, acc.files, says[k].text,
                                     says[k].openai_cost, synth)
         IN  SendAll(says, synth, k + 1,
                     [sent |-> acc.sent \o r.sent, cache |-> r.cache, files |-> r.files])

\* A handler that calls send_voice_message for each of says
Say(says, synth) ==
    LET r == SendAll(says, synth, 1, [sent |-> <<>>, cache |-> tts_cache, files |-> media])
    IN  /\ outbox' = r.sent
        /\ tts_cache' = r.cache
        /\ media' = r.files

\* send_voice_message(chat_id, text) without a cost
Free(text) == [text |-> text, openai_cost |-> 0]

\* self.user_states.get(user_id)
StateOf(user_id) ==
    IF user_id \in DOMAIN user_states THEN user_states[user_id] ELSE "idle"

\* Variant of Pop: the entry stays.
Pop_Keeps(states, user_id) == states

\* self.user_states.pop(user_id, None)
Pop(states, user_id) == [u \in DOMAIN states \ {user_id} |-> states[u]]

StoreUnchanged ==
    UNCHANGED <<tasks, micro_units, executions, task_seq, unit_seq, exec_seq, completed>>

----------------------------------------------------------------------------
(* telegram.py: the handlers as handle_message calls them.  A store call   *)
(* either works, on a session that needs no rollback, or raises; a raise   *)
(* is a database error, which ends the session's transaction and leaves    *)
(* the session unusable until session.rollback().                          *)

\* /start
HandleStartCommand(synth) ==
    /\ result' = [NoResult EXCEPT !.op = "start_command", !.say = "Task manager ready"]
    /\ Say(<<Free(Phrase("Task manager ready"))>>, synth)
    /\ oracle_calls' = 0
    /\ StoreUnchanged
    /\ UNCHANGED <<needs_rollback, user_states, dump_cache>>

\* Variant of HandleDumpCommand: the prompt is said, the state is not set.
HandleDumpCommand_StaysIdle(user_id, synth) ==
    /\ result' = [NoResult EXCEPT !.op = "dump_command", !.say = "Send me your task dump"]
    /\ Say(<<Free(Phrase("Send me your task dump"))>>, synth)
    /\ oracle_calls' = 0
    /\ StoreUnchanged
    /\ UNCHANGED <<needs_rollback, dump_cache, user_states>>

\* handle_dump_command(chat_id, user_id)
HandleDumpCommand(user_id, synth) ==
    /\ user_states' = (user_id :> "waiting_for_dump") @@ user_states
    /\ result' = [NoResult EXCEPT !.op = "dump_command", !.say = "Send me your task dump"]
    /\ Say(<<Free(Phrase("Send me your task dump"))>>, synth)
    /\ oracle_calls' = 0
    /\ StoreUnchanged
    /\ UNCHANGED <<needs_rollback, dump_cache>>

\* handle_tts_command(chat_id, user_id): no answer is sent
HandleTtsCommand(user_id) ==
    /\ user_states' = (user_id :> "waiting_for_tts") @@ user_states
    /\ result' = [NoResult EXCEPT !.op = "tts_command"]
    /\ outbox' = <<>>
    /\ oracle_calls' = 0
    /\ StoreUnchanged
    /\ UNCHANGED <<needs_rollback, dump_cache, tts_cache, media>>

\* A handler whose store call raised: the except branch says the error
\* phrase; nothing is committed.
HandlerError(op, say, synth) ==
    /\ result' = [NoResult EXCEPT !.op = op, !.say = say]
    /\ Say(<<Free(Phrase(say))>>, synth)
    /\ needs_rollback' = TRUE
    /\ StoreUnchanged

\* /tasks
TasksCommand(synth) ==
    /\ \/ /\ ~needs_rollback
          /\ HandleTasksCommand
          /\ Say(<<Free(SaidBy(result'))>>, synth)
          /\ UNCHANGED needs_rollback
       \/ HandlerError("tasks", "Error getting tasks", synth)
    /\ oracle_calls' = 0
    /\ UNCHANGED <<user_states, dump_cache>>

\* /task and /task N
TaskCommand(text, synth) ==
    /\ \/ /\ ~needs_rollback
          /\ HandleTaskCommandWith(IF text.args = NoArgs THEN 1 ELSE text.args)
          /\ Say(<<Free(SaidBy(result'))>>, synth)
          /\ UNCHANGED needs_rollback
       \/ HandlerError("task", "Error getting next task", synth)
    /\ oracle_calls' = 0
    /\ UNCHANGED <<user_states, dump_cache>>

\* /done.  The first get_pending_tasks may raise, complete_micro_unit may
\* raise before its commit is done, and the second get_pending_tasks may
\* raise after it.
DoneCommand(synth) ==
    /\ \/ /\ ~needs_rollback
          /\ HandleDoneCommand
          /\ Say(<<Free(SaidBy(result'))>>, synth)
          /\ UNCHANGED needs_rollback
       \/ HandlerError("done", "Error completing task", synth)
       \/ /\ ~needs_rollback
          /\ \E first_task \in NextActionResults(tasks, micro_units),
                n \in 0..Len(FlushOrder) :
                /\ first_task # NoUnit
                /\ n = Len(FlushOrder) => exec_seq < MaxExecs
                /\ CompleteRaises(first_task, TRUE, n)
          /\ result' = [NoResult EXCEPT !.op = "done", !.say = "Error completing task"]
          /\ Say(<<Free(Phrase("Error completing task"))>>, synth)
          /\ needs_rollback' = TRUE
       \/ /\ ~needs_rollback
          /\ exec_seq < MaxExecs
          /\ \E first_task \in NextActionResults(tasks, micro_units) :
                /\ first_task # NoUnit
                /\ DoComplete(first_task, TRUE)
                /\ result' = [NoResult EXCEPT !.op = "done", !.id = first_task,
                                              !.success = TRUE,
                                              !.say = "Error completing task"]
          /\ Say(<<Free(Phrase("Error completing task"))>>, synth)
          /\ needs_rollback' = TRUE
          /\ UNCHANGED <<task_seq, unit_seq>>
    /\ oracle_calls' = 0
    /\ UNCHANGED <<user_states, dump_cache>>

\* The tables /clear deletes, in the order of its three query.delete() calls
ClearOrder == <<"executions", "micro_units", "tasks">>

\* What the session's transaction holds after the first n deletions
ClearWork(n) ==
    [executions |-> IF n >= 1 THEN <<>> ELSE executions,
     micro_units |-> IF n >= 2 THEN <<>> ELSE micro_units,
     tasks |-> IF n >= 3 THEN <<>> ELSE tasks]

\* Variant of SessionRollback: what the transaction had deleted stays deleted.
SessionRollback_KeepsWork(committed, work) == work

\* session.rollback(): the database keeps the rows of its last commit
SessionRollback(committed, work) == committed

\* /clear.  When deletion n + 1 raises (the commit, for n = 3), the except
\* branch rolls the session back.
ClearCommand(synth) ==
    /\ \/ /\ ~needs_rollback
          /\ HandleClearCommand
          /\ UNCHANGED needs_rollback
       \/ \E n \in 0..Len(ClearOrder) :
            LET kept == SessionRollback(
                            [executions |-> executions, micro_units |-> micro_units,
                             tasks |-> tasks],
                            ClearWork(n))
            IN  /\ needs_rollback => n = 0
                /\ executions' = kept.executions
                /\ micro_units' = kept.micro_units
                /\ tasks' = kept.tasks
                /\ needs_rollback' = FALSE
                /\ result' = [NoResult EXCEPT !.op = "clear", !.say = "Error clearing tasks"]
                /\ UNCHANGED <<task_seq, unit_seq, exec_seq, completed>>
    /\ Say(<<Free(Phrase(result'.say))>>, synth)
    /\ oracle_calls' = 0
    /\ UNCHANGED <<user_states, dump_cache>>

\* The parse oracle's answer for a dump of at most n candidates
ParseAnswers(n) ==
    {[ok |-> FALSE, tasks |-> <<>>]} \cup {[ok |-> TRUE, tasks |-> p] : p \in ParsedDumps(n)}

\* parse_task_dump_with_cost: the parsed list, [] when the call fails
ParseTaskDump(answer) == IF answer.ok THEN answer.tasks ELSE <<>>

\* The cost an oracle call returns next to its answer
OracleCost(answer) == IF answer.ok THEN CallCost ELSE 0

\* total_openai_cost of process_dump_with_cost, from candidate k on
RECURSIVE CandidateCosts(_, _)
CandidateCosts(parsed_tasks, k) ==
    IF k > Len(parsed_tasks) THEN 0
    ELSE OracleCost(parsed_tasks[k].priority) + OracleCost(parsed_tasks[k].decompose)
            + CandidateCosts(parsed_tasks, k + 1)

TotalOpenaiCost(parse) == OracleCost(parse) + CandidateCosts(ParseTaskDump(parse), 1)

\* Variant of Summary: the counts are said also when no task was created.
Summary_AlwaysCounts(results, openai_cost) ==
    [text |-> Created(results), openai_cost |-> openai_cost]

\* Variant of Summary: the cost of the first processing is reported again.
Summary_Charged(results, openai_cost) ==
    [text |-> IF results.new_tasks = 0
              THEN Phrase("No tasks could be extracted from your input")
              ELSE Created(results),
     openai_cost |-> openai_cost + CallCost]

\* The answer to a dump: results["new_tasks"] == 0 or the summary
Summary(results, openai_cost) ==
    [text |-> IF results.new_tasks = 0
              THEN Phrase("No tasks could be extracted from your input")
              ELSE Created(results),
     openai_cost |-> openai_cost]

\* Variant of CachedDump: a hit is processed again.
CachedDump_NeverHit(dump_hash) == FALSE

\* if dump_hash in self.dump_cache
CachedDump(dump_hash) == dump_hash \in DOMAIN dump_cache

\* process_dump(chat_id, user_id, dump_text)
ProcessDump(user_id, dump_text, synth) ==
    LET dump_hash == get_text_hash(dump_text)
    IN  /\ user_states' = Pop(user_states, user_id)
        /\ IF CachedDump(dump_hash)
           THEN LET results == dump_cache[dump_hash]
                IN  /\ result' = [NoResult EXCEPT
                                    !.op = "cached_dump",
                                    !.new_tasks = results.new_tasks,
                                    !.total_micro_units = results.total_micro_units]
                    /\ Say(<<Summary(results, 0)>>, synth)
                    /\ oracle_calls' = 0
                    /\ StoreUnchanged
                    /\ UNCHANGED <<needs_rollback, dump_cache>>
           ELSE \E parse \in ParseAnswers(MaxTasks - task_seq) :
                  LET parsed_tasks == ParseTaskDump(parse)
                      n == Len(parsed_tasks)
                  IN  \/ /\ ~needs_rollback
                         /\ ProcessDumpWithCostOn(parsed_tasks)
                         /\ LET results == [new_tasks |-> result'.new_tasks,
                                            total_micro_units |-> result'.total_micro_units]
                            IN  /\ dump_cache' = (dump_hash :> results) @@ dump_cache
                                /\ Say(<<Free(Phrase("Processing tasks")),
                                         Summary(results, TotalOpenaiCost(parse))>>, synth)
                         /\ oracle_calls' = 1 + 2 * n
                         /\ UNCHANGED needs_rollback
                      \* the flush of candidate j raises (the store fails, or the
                      \* search for candidate j failed and left the transaction
                      \* aborted), or the commit for j = n + 1:
                      \* the rows of the candidates flushed before are in a transaction
                      \* that is not committed, their ids stay consumed
                      \/ \E j \in 1..(n + 1) :
                            LET flushed == CreateAll(SubSeq(parsed_tasks, 1, j - 1), 1,
                                                [tasks |-> tasks, micro_units |-> micro_units,
                                                 task_seq |-> task_seq, unit_seq |-> unit_seq,
                                                 new_tasks |-> 0, total_micro_units |-> 0])
                            IN  /\ needs_rollback => j = 1
                                /\ flushed.task_seq <= MaxTasks
                                /\ flushed.unit_seq <= MaxUnits
                                /\ task_seq' = flushed.task_seq
                                /\ unit_seq' = flushed.unit_seq
                                /\ tasks' = Aborted(tasks, flushed.tasks)
                                /\ micro_units' = Aborted(micro_units, flushed.micro_units)
                                /\ oracle_calls' = IF j <= n THEN 2 * j ELSE 1 + 2 * n
                         /\ needs_rollback' = TRUE
                         /\ result' = [NoResult EXCEPT !.op = "process_dump",
                                                       !.say = "Error processing tasks"]
                         /\ Say(<<Free(Phrase("Processing tasks")),
                                  Free(Phrase("Error processing tasks"))>>, synth)
                         /\ UNCHANGED <<executions, exec_seq, completed, dump_cache>>

\* process_tts_text(chat_id, user_id, text); the log says whether
\* FishClient was asked for the audio ("Attempting TTS", fish.py)
ProcessTtsText(user_id, text, synth) ==
    /\ user_states' = Pop(user_states, user_id)
    /\ result' = [NoResult EXCEPT
                    !.op = "tts_text",
                    !.log = IF send_voice_message(tts_cache, media, FreeText(text),
                                                  0, synth).called
                            THEN "Attempting TTS" ELSE ""]
    /\ Say(<<Free(FreeText(text))>>, synth)
    /\ oracle_calls' = 0
    /\ StoreUnchanged
    /\ UNCHANGED <<needs_rollback, dump_cache>>

\* The else branches of handle_message: an unknown command, a plain text
Answer(op, say, synth) ==
    /\ result' = [NoResult EXCEPT !.op = op, !.say = say]
    /\ Say(<<Free(Phrase(say))>>, synth)
    /\ oracle_calls' = 0
    /\ StoreUnchanged
    /\ UNCHANGED <<needs_rollback, user_states, dump_cache>>

\* Variant of Authorized: every sender is let in.
Authorized_Anyone(user_id) == TRUE

\* not (int(user_id) != int(ADMIN_USER_ID))
Authorized(user_id) == user_id = ADMIN_USER_ID

\* Variant of HandleMessage: a text that is a command is run as the
\* command, whatever the sender's state.
HandleMessage_CommandsFirst(user_id, text, synth) ==
    IF ~Authorized(user_id)
    THEN /\ result' = [NoResult EXCEPT !.op = "dropped"]
         /\ outbox' = <<>>
         /\ oracle_calls' = 0
         /\ StoreUnchanged
         /\ UNCHANGED <<needs_rollback, user_states, dump_cache, tts_cache, media>>
    ELSE IF text.slash /\ text.word = "start" THEN HandleStartCommand(synth)
    ELSE IF text.slash /\ text.word = "dump" THEN HandleDumpCommand(user_id, synth)
    ELSE IF text.slash /\ text.word = "tasks" THEN TasksCommand(synth)
    ELSE IF text.slash /\ text.word = "task" THEN TaskCommand(text, synth)
    ELSE IF text.slash /\ text.word = "done" THEN DoneCommand(synth)
    ELSE IF text.slash /\ text.word = "clear" THEN ClearCommand(synth)
    ELSE IF text.slash /\ text.word = "tts" THEN HandleTtsCommand(user_id)
    ELSE IF StateOf(user_id) = "waiting_for_dump" THEN ProcessDump(user_id, text, synth)
    ELSE IF StateOf(user_id) = "waiting_for_tts" THEN ProcessTtsText(user_id, text, synth)
    ELSE IF ~text.slash THEN Answer("text", "Use slash commands", synth)
    ELSE Answer("unknown", "Unknown command", synth)

\* handle_message(message)
HandleMessage(user_id, text, synth) ==
    IF ~Authorized(user_id)
    THEN /\ result' = [NoResult EXCEPT !.op = "dropped"]
         /\ outbox' = <<>>
         /\ oracle_calls' = 0
         /\ StoreUnchanged
         /\ UNCHANGED <<needs_rollback, user_states, dump_cache, tts_cache, media>>
    ELSE IF StateOf(user_id) = "waiting_for_dump" THEN ProcessDump(user_id, text, synth)
    ELSE IF StateOf(user_id) = "waiting_for_tts" THEN ProcessTtsText(user_id, text, synth)
    ELSE IF ~text.slash THEN Answer("text", "Use slash commands", synth)
    ELSE IF text.word = "start" THEN HandleStartCommand(synth)
    ELSE IF text.word = "dump" THEN HandleDumpCommand(user_id, synth)
    ELSE IF text.word = "tasks" THEN TasksCommand(synth)
    ELSE IF text.word = "task" THEN TaskCommand(text, synth)
    ELSE IF text.word = "done" THEN DoneCommand(synth)
    ELSE IF text.word = "clear" THEN ClearCommand(synth)
    ELSE IF text.word = "tts" THEN HandleTtsCommand(user_id)
    ELSE Answer("unknown", "Unknown command", synth)

\* What the admin answers a prompt of the bot with: a plain text, or a
\* text that is itself a command
PromptedTexts == {text \in Texts : text.word \in {"buy milk", "done"}}

\* The texts the next message of user_id may have
Sendable(user_id) ==
    IF user_id = ADMIN_USER_ID /\ StateOf(user_id) # "idle" THEN PromptedTexts ELSE Texts

\* run_polling: the next update is taken off the queue and handled
Poll ==
    /\ offset < MaxUpdates
    /\ offset' = offset + 1
    /\ \E user_id \in Users, synth \in BOOLEAN :
            \E text \in Sendable(user_id) :
                /\ update' = [user_id |-> user_id, text |-> text]
                /\ HandleMessage(user_id, text, synth)
    /\ UNCHANGED polling

----------------------------------------------------------------------------

\* TelegramBot.__init__, and the session create_task_manager() opens
BotInit ==
    /\ needs_rollback = FALSE
    /\ user_states = <<>>
    /\ dump_cache = <<>>
    /\ tts_cache = <<>>
    /\ media = {}
    /\ offset = 0
    /\ update = NoUpdate
    /\ outbox = <<>>
    /\ oracle_calls = 0
    /\ polling = [queue |-> <<>>, next_id |-> 0, updates |-> <<>>, handled |-> <<>>,
                  failed |-> {}, running |-> FALSE, pc |-> "created"]

Init ==
    /\ tasks = <<>>
    /\ micro_units = <<>>
    /\ executions = <<>>
    /\ task_seq = 0
    /\ unit_seq = 0
    /\ exec_seq = 0
    /\ result = NoResult
    /\ completed = {}
    /\ BotInit

\* The operations, each called on a session that works
Next ==
    \/ ProcessDumpWithCost /\ UNCHANGED <<needs_rollback, bot>>
    \/ GetNextAction /\ UNCHANGED <<needs_rollback, bot>>
    \/ StartMicroUnit /\ UNCHANGED <<needs_rollback, bot>>
    \/ CompleteMicroUnit /\ UNCHANGED <<needs_rollback, bot>>
    \/ HandleTasksCommand /\ UNCHANGED <<needs_rollback, bot>>
    \/ HandleTaskCommand /\ UNCHANGED <<needs_rollback, bot>>
    \/ HandleDoneCommand /\ UNCHANGED <<needs_rollback, bot>>
    \/ HandleClearCommand /\ UNCHANGED <<needs_rollback, bot>>

Spec == Init /\ [][Next]_vars

\* The database a run of TaskManager finds: the rows one earlier
\* process_dump_with_cost call has committed to the empty tables.
LogInit ==
    /\ BotInit
    /\ executions = <<>>
    /\ exec_seq = 0
    /\ completed = {}
    /\ \E parsed_tasks \in UNION {[1..k -> [priority : PriorityAnswers,
                                              decompose : DecomposeAnswersUpTo(MaxUnits)]] :
                                     k \in 0..MaxTasks} :
            LET acc == CreateAll(parsed_tasks, 1,
                            [tasks |-> <<>>, micro_units |-> <<>>,
                             task_seq |-> 0, unit_seq |-> 0,
                             new_tasks |-> 0, total_micro_units |-> 0])
            IN  /\ acc.unit_seq <= MaxUnits
                /\ unit_seq = acc.unit_seq
                /\ tasks = acc.tasks
                /\ micro_units = acc.micro_units
                /\ task_seq = acc.task_seq
                /\ result = [NoResult EXCEPT !.op = "process_dump",
                                             !.new_tasks = acc.new_tasks,
                                             !.total_micro_units = acc.total_micro_units]

\* The calls that change the status of a unit, with room in the execution
\* log for repeated complete_micro_unit calls on one unit.
LogNext ==
    \/ StartMicroUnit /\ UNCHANGED <<needs_rollback, bot>>
    \/ CompleteMicroUnitWithin(MaxLog) /\ UNCHANGED <<needs_rollback, bot>>

LogSpec == LogInit /\ [][LogNext]_vars

\* The calls that complete a unit, each of which may raise; a session that
\* awaits a rollback answers no call.
AtomicNext ==
    \/ ~needs_rollback /\ StartMicroUnit /\ UNCHANGED <<needs_rollback, bot>>
    \/ ~needs_rollback /\ CompleteMicroUnitWithin(MaxExecs)
                       /\ UNCHANGED <<needs_rollback, bot>>
    \/ CompleteMicroUnitRaisesWithin(MaxExecs) /\ UNCHANGED bot

AtomicSpec == LogInit /\ [][AtomicNext]_vars

\* The texts sent to the two waiting states here: texts that differ only
\* in characters preprocess_text removes ("buy milk", "buy milk 2"), a
\* command, and a text of which preprocess_text leaves nothing ("2").
CosmeticTexts ==
    PromptedTexts
        \cup {[slash |-> FALSE, word |-> "buy milk", args |-> MaxUnits],
              [slash |-> FALSE, word |-> "", args |-> MaxUnits]}

\* A file of the media directory is removed (by hand, by a cleanup job);
\* MaxStamp bounds how often the audio of one text is made again.
DeleteMedia ==
    /\ \E mp3_path \in media :
            /\ mp3_path.stamp < MaxStamp
            /\ media' = media \ {mp3_path}
    /\ result' = [NoResult EXCEPT !.op = "unlink"]
    /\ StoreUnchanged
    /\ UNCHANGED <<needs_rollback, user_states, dump_cache, tts_cache,
                   offset, update, outbox, oracle_calls, polling>>

\* The dumps sent here: two that differ only in what preprocess_text removes
CosmeticDumps == {text \in CosmeticTexts : text.word = "buy milk"}

\* The admin's message text reaches process_dump
DumpArrived(texts) ==
    \E text \in texts, synth \in BOOLEAN :
        /\ update' = [user_id |-> ADMIN_USER_ID, text |-> text]
        /\ ProcessDump(ADMIN_USER_ID, text, synth)
        /\ UNCHANGED <<offset, polling>>

\* The admin's message text reaches process_tts_text
TtsTextArrived(texts) ==
    \E text \in texts, synth \in BOOLEAN :
        /\ update' = [user_id |-> ADMIN_USER_ID, text |-> text]
        /\ ProcessTtsText(ADMIN_USER_ID, text, synth)
        /\ UNCHANGED <<offset, polling>>

\* The two caches: dumps processed and texts spoken one after the other
CacheNext ==
    \/ DumpArrived(CosmeticDumps)
    \/ TtsTextArrived(CosmeticDumps)

CacheSpec == Init /\ [][CacheNext]_vars

\* The synthesis cache: texts spoken one after the other, and audio files
\* that disappear
VoiceNext ==
    \/ TtsTextArrived(CosmeticTexts)
    \/ DeleteMedia

VoiceSpec == Init /\ [][VoiceNext]_vars

\* What the full-text query of _find_similar_existing_tasks does for one
\* candidate: it raises, it returns no row, it returns rows
SearchOutcomes == {"failed", "none", "matches"}

\* The rows the query can return: AND status IN ('pending', 'active')
Searchable(T) == {t \in DOMAIN T : T[t].status \in {"pending", "active"}}

\* The outcomes of the searches of one dump, one per candidate: the first
\* candidate's search has rows to return only when the store has, a later
\* one sees the rows flushed for the candidates before it.
Searches(parsed_tasks) ==
    {similar \in [1..Len(parsed_tasks) -> SearchOutcomes] :
        \A k \in 1..Len(parsed_tasks) :
            similar[k] = "matches" => (k > 1 \/ Searchable(tasks) # {})}

\* The first candidate whose search raised, Len(similar) + 1 when none did
FirstFailed(similar) ==
    IF \E k \in 1..Len(similar) : similar[k] = "failed"
    THEN CHOOSE k \in 1..Len(similar) :
            /\ similar[k] = "failed"
            /\ \A i \in 1..(k - 1) : similar[i] # "failed"
    ELSE Len(similar) + 1

\* The first candidate that process_dump_with_cost does not create for
\* these search outcomes.  _find_similar_existing_tasks catches the
\* exception of a failed query and returns [], and similar_tasks is not
\* used ("create anyway"); but the failed statement has aborted the
\* transaction, so the flush of that candidate's task raises.
SimilarBlocks(similar) == FirstFailed(similar)

\* process_dump_with_cost(dump_text) for the candidates parsed_tasks and
\* the search outcomes similar, on a store that fails in no other way
ProcessDumpSearching(parsed_tasks, similar) ==
    LET f == IF needs_rollback THEN 1 ELSE SimilarBlocks(similar)
    IN  IF ~needs_rollback /\ f > Len(parsed_tasks)
        THEN /\ ProcessDumpWithCostOn(parsed_tasks)
             /\ UNCHANGED needs_rollback
        ELSE LET flushed == CreateAll(SubSeq(parsed_tasks, 1, f - 1), 1,
                                [tasks |-> tasks, micro_units |-> micro_units,
                                 task_seq |-> task_seq, unit_seq |-> unit_seq,
                                 new_tasks |-> 0, total_micro_units |-> 0])
             IN  /\ flushed.task_seq <= MaxTasks
                 /\ flushed.unit_seq <= MaxUnits
                 /\ task_seq' = flushed.task_seq
                 /\ unit_seq' = flushed.unit_seq
                 /\ tasks' = Aborted(tasks, flushed.tasks)
                 /\ micro_units' = Aborted(micro_units, flushed.micro_units)
                 /\ result' = [NoResult EXCEPT !.op = "process_dump_raised"]
                 /\ needs_rollback' = TRUE
                 /\ UNCHANGED <<executions, exec_seq, completed>>

\* process_dump_with_cost(dump_text) with its searches
ProcessDumpSearches ==
    \E parsed_tasks \in ParsedDumps(MaxTasks - task_seq) :
        \E similar \in Searches(parsed_tasks) :
            ProcessDumpSearching(parsed_tasks, similar)

\* Dumps with their duplicate searches, between starts and completions
DedupNext ==
    \/ ProcessDumpSearches /\ UNCHANGED bot
    \/ ~needs_rollback /\ StartMicroUnit /\ UNCHANGED <<needs_rollback, bot>>
    \/ ~needs_rollback /\ CompleteMicroUnit /\ UNCHANGED <<needs_rollback, bot>>

DedupSpec == Init /\ [][DedupNext]_vars

\* The tasks rows a search runs over, each with rank, the ts_rank of its
\* content against the candidate text in tenths (0: the row does not match
\* the query): a close and a fair match that can be returned, a close match
\* of a complete task, a match at the threshold, a row that does not match.
SearchRowKinds ==
    {[status |-> "pending", priority |-> DefaultPriority, rank |-> 3],
     [status |-> "active", priority |-> DefaultPriority, rank |-> 2],
     [status |-> "complete", priority |-> DefaultPriority, rank |-> 3],
     [status |-> "pending", priority |-> DefaultPriority, rank |-> RankThreshold],
     [status |-> "pending", priority |-> DefaultPriority, rank |-> 0]}

\* The store a search finds: up to one row more than the query's LIMIT
SearchInit ==
    /\ tasks \in UNION {[1..n -> SearchRowKinds] : n \in 0..(SearchLimit + 1)}
    /\ task_seq = Len(tasks)
    /\ micro_units = <<>>
    /\ executions = <<>>
    /\ unit_seq = 0
    /\ exec_seq = 0
    /\ result = NoResult
    /\ completed = {}
    /\ BotInit

\* The results of the raw query: WHERE search_vector @@ ... AND status IN
\* ('pending', 'active') ORDER BY rank DESC LIMIT 5.  Which of several rows
\* of equal rank the LIMIT keeps is not fixed.
QueryResults(T) ==
    LET hits == {t \in Searchable(T) : T[t].rank > 0}
    IN  {results \in SUBSET hits :
            /\ Cardinality(results) = Min(SearchLimit, Cardinality(hits))
            /\ \A r \in results, t \in hits \ results : T[r].rank >= T[t].rank}

\* task_ids = [r[0] for r in results if r[2] > 0.1]
TaskIds(T, results) == {r \in results : T[r].rank > RankThreshold}

\* session.query(Task).filter(Task.id.in_(task_ids)).all(): the rows with
\* these ids, in an order the query does not fix
RECURSIVE AllRows(_)
AllRows(task_ids) ==
    IF task_ids = {} THEN {<<>>}
    ELSE UNION {{<<t>> \o rest : rest \in AllRows(task_ids \ {t})} : t \in task_ids}

\* _find_similar_existing_tasks(task_content), called once on the store
\* found: the query raises and [] is returned, or the Task objects of the
\* rows above the threshold are; nothing is written.
FindSimilarExistingTasks ==
    /\ result.op = "init"
    /\ \E failed \in BOOLEAN :
        IF failed
        THEN result' = [NoResult EXCEPT !.op = "find_similar",
                                        !.log = "Full-text search failed"]
        ELSE \E results \in QueryResults(tasks) :
                \E similar_tasks \in AllRows(TaskIds(tasks, results)) :
                    result' = [NoResult EXCEPT !.op = "find_similar", !.ok = TRUE,
                                               !.list = similar_tasks]
    /\ StoreUnchanged
    /\ UNCHANGED <<needs_rollback, bot>>

SearchNext == FindSimilarExistingTasks

SearchSpec == SearchInit /\ [][SearchNext]_vars

\* The messages of the updates polled here: none (an update of another
\* kind), one without "from" (handle_message raises at its second line and
\* logs), a plain text of a stranger, a plain text of the admin.
PolledMessages ==
    {[kind |-> "none", user_id |-> NoUpdate.user_id, text |-> NoText],
     [kind |-> "malformed", user_id |-> NoUpdate.user_id, text |-> NoText]}
        \cup {[kind |-> "text", user_id |-> user_id,
               text |-> [slash |-> FALSE, word |-> "buy milk", args |-> NoArgs]] :
                    user_id \in Users}

\* Telegram receives an update; update ids are handed out in sequence
Arrive ==
    /\ polling.next_id < MaxUpdates
    /\ \E message \in PolledMessages :
            polling' = [polling EXCEPT
                            !.queue = Append(@, [update_id |-> polling.next_id,
                                                 message |-> message]),
                            !.next_id = @ + 1]
    /\ StoreUnchanged
    /\ UNCHANGED <<result, needs_rollback, user_states, dump_cache, tts_cache, media,
                   offset, update, outbox, oracle_calls>>

\* run_polling is entered: self.running = True
RunPolling ==
    /\ polling.pc = "created"
    /\ polling' = [polling EXCEPT !.running = TRUE, !.pc = "polling"]
    /\ result' = [NoResult EXCEPT !.op = "run_polling"]
    /\ StoreUnchanged
    /\ UNCHANGED <<needs_rollback, user_states, dump_cache, tts_cache, media,
                   offset, update, outbox, oracle_calls>>

\* What getUpdates keeps and answers for offset: the updates from that id on
Unconfirmed(queue, from) ==
    SelectSeq(queue, LAMBDA u : u.update_id >= from)

\* while self.running: updates = self.get_updates(), at the top of the loop.
\* The request fails ([] is returned, the loop sleeps) or is answered.
GetUpdates ==
    /\ polling.pc = "polling"
    /\ polling.updates = <<>>
    /\ polling.running
    /\ \E ok \in BOOLEAN :
        /\ polling' = IF ok
                      THEN [polling EXCEPT !.queue = Unconfirmed(@, offset),
                                           !.updates = Unconfirmed(polling.queue, offset)]
                      ELSE polling
        /\ result' = [NoResult EXCEPT !.op = "get_updates", !.ok = ok,
                                      !.log = IF ok THEN "" ELSE "Failed to get updates"]
    /\ StoreUnchanged
    /\ UNCHANGED <<needs_rollback, user_states, dump_cache, tts_cache, media,
                   offset, update, outbox, oracle_calls>>

\* while self.running, found False at the top of the loop
LoopEnds ==
    /\ polling.pc = "polling"
    /\ polling.updates = <<>>
    /\ ~polling.running
    /\ polling' = [polling EXCEPT !.pc = "stopped"]
    /\ result' = [NoResult EXCEPT !.op = "loop_ends"]
    /\ StoreUnchanged
    /\ UNCHANGED <<needs_rollback, user_states, dump_cache, tts_cache, media,
                   offset, update, outbox, oracle_calls>>

\* Variant of OffsetPast: the cursor stays at an update whose handler failed.
OffsetPast_UnlessFailed(polled) ==
    IF polled.message.kind = "malformed" THEN polled.update_id ELSE polled.update_id + 1

\* self.offset = update["update_id"] + 1
OffsetPast(polled) == polled.update_id + 1

\* Variant of AfterHandlerRaised: the exception ends the loop.
AfterHandlerRaised_Ends(pc) == "raised"

\* except Exception in handle_message: the error is logged, the loop goes on
AfterHandlerRaised(pc) == pc

\* One pass of for update in updates: the cursor is set, then the message,
\* if the update has one, is handled
Dispatch ==
    /\ polling.pc = "polling"
    /\ polling.updates # <<>>
    /\ LET polled == Head(polling.updates)
           message == polled.message
       IN  /\ offset' = OffsetPast(polled)
           /\ IF message.kind = "none"
              THEN /\ polling' = [polling EXCEPT !.updates = Tail(@)]
                   /\ result' = [NoResult EXCEPT !.op = "skipped"]
                   /\ StoreUnchanged
                   /\ UNCHANGED <<needs_rollback, user_states, dump_cache, tts_cache,
                                  media, update, outbox, oracle_calls>>
              ELSE IF message.kind = "malformed"
              THEN /\ polling' = [polling EXCEPT !.updates = Tail(@),
                                                 !.handled = Append(@, polled.update_id),
                                                 !.failed = @ \cup {polled.update_id},
                                                 !.pc = AfterHandlerRaised(@)]
                   /\ result' = [NoResult EXCEPT !.op = "handle_message",
                                                 !.log = "Error handling message"]
                   /\ update' = NoUpdate
                   /\ outbox' = <<>>
                   /\ oracle_calls' = 0
                   /\ StoreUnchanged
                   /\ UNCHANGED <<needs_rollback, user_states, dump_cache, tts_cache,
                                  media>>
              ELSE /\ polling' = [polling EXCEPT !.updates = Tail(@),
                                                 !.handled = Append(@, polled.update_id)]
                   /\ update' = [user_id |-> message.user_id, text |-> message.text]
                   /\ \E synth \in BOOLEAN :
                            HandleMessage(message.user_id, message.text, synth)

\* stop(), from another thread: self.running = False and the session is
\* closed, which rolls back what it has open
Stop ==
    /\ polling.running
    /\ polling' = [polling EXCEPT !.running = FALSE]
    /\ needs_rollback' = FALSE
    /\ result' = [NoResult EXCEPT !.op = "stop"]
    /\ StoreUnchanged
    /\ UNCHANGED <<user_states, dump_cache, tts_cache, media,
                   offset, update, outbox, oracle_calls>>

\* except KeyboardInterrupt: break, wherever the loop is
Interrupt ==
    /\ polling.pc = "polling"
    /\ polling' = [polling EXCEPT !.running = FALSE, !.pc = "interrupted"]
    /\ result' = [NoResult EXCEPT !.op = "interrupt", !.log = "Bot stopped by user"]
    /\ StoreUnchanged
    /\ UNCHANGED <<needs_rollback, user_states, dump_cache, tts_cache, media,
                   offset, update, outbox, oracle_calls>>

\* The loop of run_polling, the updates that arrive and the ways to end it
PollNext ==
    \/ Arrive
    \/ RunPolling
    \/ GetUpdates
    \/ Dispatch
    \/ LoopEnds
    \/ Stop
    \/ Interrupt

PollSpec == Init /\ [][PollNext]_vars

\* The thread of run_polling keeps running: a pass of the for loop that can
\* be made is made, and so is the next request at the top of the loop
FairPollSpec == PollSpec /\ WF_vars(Dispatch) /\ WF_vars(GetUpdates)

\* The commands whose text the admin sends while the bot waits for a text
StateCommands == {"clear", "done", "dump", "tts"}

\* The texts of the admin here: /dump and /tts when idle; when the bot
\* waits for a text, a plain text or one that is itself a command
PrecedenceTexts ==
    IF StateOf(ADMIN_USER_ID) = "idle"
    THEN {text \in Texts : text.slash /\ text.word \in {"dump", "tts"}}
    ELSE {text \in Texts : /\ text.args = NoArgs
                           /\ \/ ~text.slash
                              \/ text.word \in StateCommands}

\* run_polling: the next update, a message of the admin, is handled
PollAdmin ==
    /\ offset < MaxUpdates
    /\ offset' = offset + 1
    /\ \E text \in PrecedenceTexts, synth \in BOOLEAN :
            /\ update' = [user_id |-> ADMIN_USER_ID, text |-> text]
            /\ HandleMessage(ADMIN_USER_ID, text, synth)
    /\ UNCHANGED polling

PrecedenceNext == PollAdmin

PrecedenceSpec == Init /\ [][PrecedenceNext]_vars

\* The admin's /clear reaches handle_clear_command
ClearArrived ==
    \E synth \in BOOLEAN :
        /\ update' = [user_id |-> ADMIN_USER_ID,
                      text |-> [slash |-> TRUE, word |-> "clear", args |-> NoArgs]]
        /\ ClearCommand(synth)
        /\ UNCHANGED <<offset, polling>>

\* Dumps processed and the store cleared, in any order
RepeatNext ==
    \/ DumpArrived(CosmeticDumps)
    \/ ClearArrived

RepeatSpec == Init /\ [][RepeatNext]_vars

\* The bot: everything happens in handle_message, one update at a time
BotNext == Poll

BotSpec == Init /\ [][BotNext]_vars

----------------------------------------------------------------------------
(* Properties of the scheduler *)

\* The task that owns unit u
TaskOf(u) == micro_units[u].task_id

\* An eligible unit: pending, and owned by a pending or active task
EligibleUnits ==
    {u \in DOMAIN micro_units :
        /\ micro_units[u].status = "pending"
        /\ tasks[TaskOf(u)].status \in {"pending", "active"}}

\* Unit a has a strictly smaller (-priority, sequence_order) key than unit b
KeyLess(a, b) ==
    \/ (0 - tasks[TaskOf(a)].priority) < (0 - tasks[TaskOf(b)].priority)
    \/ /\ tasks[TaskOf(a)].priority = tasks[TaskOf(b)].priority
       /\ micro_units[a].sequence_order < micro_units[b].sequence_order

\* The pending units of the task that owns u
PendingSiblings(u) ==
    {v \in DOMAIN micro_units :
        TaskOf(v) = TaskOf(u) /\ micro_units[v].status = "pending"}

\* C1: get_next_action returns None or a unit that is pending and whose task
\* is pending or active, never a unit of a complete or archived task, and it
\* returns None only when no eligible unit exists.
C1_SelectNextEligible ==
    result.op = "get_next_action" =>
        IF result.unit = NoUnit
        THEN EligibleUnits = {}
        ELSE /\ result.unit \in DOMAIN micro_units
             /\ micro_units[result.unit].status = "pending"
             /\ tasks[TaskOf(result.unit)].status \in {"pending", "active"}
             /\ tasks[TaskOf(result.unit)].status \notin {"complete", "archived"}

\* C1 witness: get_next_action returned a unit while a complete task with a
\* complete unit sits in the store.
C1_Witness ==
    /\ result.op = "get_next_action"
    /\ result.unit # NoUnit
    /\ \E u \in DOMAIN micro_units :
        micro_units[u].status = "complete" /\ tasks[TaskOf(u)].status = "complete"

\* C2: when an eligible unit exists, the unit get_next_action returns is
\* eligible and no eligible unit has a strictly smaller
\* (-priority, sequence_order) key.
C2_SelectNextMinimalKey ==
    (result.op = "get_next_action" /\ EligibleUnits # {}) =>
        /\ result.unit \in EligibleUnits
        /\ \A e \in EligibleUnits : ~KeyLess(e, result.unit)

\* C2 witness: get_next_action chose between two eligible units, one of a
\* task with a larger priority.
C2_Witness ==
    /\ result.op = "get_next_action"
    /\ \E e \in EligibleUnits :
        /\ result.unit \in EligibleUnits
        /\ tasks[TaskOf(result.unit)].priority > tasks[TaskOf(e)].priority

\* C3 (as stated): the store contents determine what get_next_action
\* returns, also when eligible units tie on priority and sequence_order.
C3_SelectNextDeterministic ==
    \A a, b \in NextActionResults(tasks, micro_units) : a = b

\* C4: get_next_action and the listing handlers (/tasks, /task N) leave every
\* Task, MicroUnit and Execution row as it was.
C4_SelectionReadOnly ==
    [][result'.op \in {"get_next_action", "tasks", "task"}
            => UNCHANGED <<tasks, micro_units, executions>>]_vars

\* C4 witness: a listing handler spoke two units, and both are still pending.
C4_Witness ==
    /\ result.op \in {"tasks", "task"}
    /\ Len(result.list) = 2
    /\ \A i \in 1..2 : micro_units[result.list[i]].status = "pending"

\* C5 (as stated): completing the only pending unit of a task leaves the
\* task complete when the call returns.
C5_LastUnitCompletesTask ==
    [][\A u \in DOMAIN micro_units :
            (/\ result'.op \in {"complete", "done"}
             /\ result'.id = u
             /\ PendingSiblings(u) = {u})
                => tasks'[TaskOf(u)].status = "complete"]_vars

\* C6: completing a unit while another unit of the same task is pending
\* leaves the task's status as it was.
C6_NonLastUnitKeepsTaskStatus ==
    [][\A u \in DOMAIN micro_units :
            (/\ result'.op \in {"complete", "done"}
             /\ result'.id = u
             /\ PendingSiblings(u) \ {u} # {})
                => tasks'[TaskOf(u)].status = tasks[TaskOf(u)].status]_vars

\* C6 witness: a unit was completed and a sibling of it is pending.
C6_Witness ==
    /\ result.op = "complete"
    /\ result.ok
    /\ PendingSiblings(result.id) \ {result.id} # {}

\* C7: get_next_action never returns a unit that a complete_micro_unit call
\* has completed before.
C7_CompletedNeverSelected ==
    result.op = "get_next_action" => result.unit \notin completed

\* C7 witness: get_next_action ran while a completed unit is in the table
\* and its task is still open, and returned another unit.
C7_Witness ==
    /\ result.op = "get_next_action"
    /\ result.unit # NoUnit
    /\ \E u \in completed :
        /\ u \in DOMAIN micro_units
        /\ tasks[TaskOf(u)].status \in {"pending", "active"}

\* C8: start_micro_unit returns True only for an existing pending unit, and
\* then the unit and its task are active in the state it commits; no
\* committed state has an active unit in a pending task.
C8_StartAtomic ==
    [][/\ (result'.op = "start" /\ result'.ok) =>
            /\ result'.id \in DOMAIN micro_units
            /\ micro_units[result'.id].status = "pending"
            /\ micro_units'[result'.id].status = "active"
            /\ tasks'[TaskOf(result'.id)].status = "active"
       /\ \A u \in DOMAIN micro_units' :
            micro_units'[u].status = "active"
                => tasks'[micro_units'[u].task_id].status # "pending"]_vars

\* C8 witness: a start succeeded; unit and task are active.
C8_Witness ==
    /\ result.op = "start"
    /\ result.ok
    /\ micro_units[result.id].status = "active"
    /\ tasks[TaskOf(result.id)].status = "active"

C10_CompleteRegardlessOfSuccess ==
    /\ \A u \in DOMAIN micro_units :
        LET t == CompleteCommit(u, TRUE)
            f == CompleteCommit(u, FALSE)
        IN  /\ t.micro_units[u].status = "complete"
            /\ f.micro_units[u].status = "complete"
            /\ t.micro_units = f.micro_units
            /\ t.tasks = f.tasks
            /\ DOMAIN t.executions = DOMAIN f.executions
            /\ \A e \in DOMAIN t.executions :
                /\ t.executions[e].micro_unit_id = f.executions[e].micro_unit_id
                /\ e \in DOMAIN executions =>
                        t.executions[e] = executions[e] /\ f.executions[e] = executions[e]
                /\ e \notin DOMAIN executions =>
                        t.executions[e].success /\ ~f.executions[e].success
    /\ (result.op = "complete" /\ result.ok) =>
        /\ micro_units[result.id].status = "complete"
        /\ executions[exec_seq] = [micro_unit_id |-> result.id, success |-> result.success]

\* C10 witness: a unit was completed with success = False.
C10_Witness ==
    /\ result.op = "complete"
    /\ result.ok
    /\ ~result.success
    /\ micro_units[result.id].status = "complete"

\* The Execution rows logged for unit u in the table ex
ExecutionsOf(ex, u) == {e \in DOMAIN ex : ex[e].micro_unit_id = u}

\* C11: every complete_micro_unit call on an existing unit, whatever the
\* unit's status, inserts exactly one new Execution row, for that unit, and
\* changes no existing row: the unit has one row more after every call.
C11_CompleteAppendsExecution ==
    [][(result'.op = "complete" /\ result'.ok) =>
            /\ DOMAIN executions \subseteq DOMAIN executions'
            /\ Cardinality(DOMAIN executions' \ DOMAIN executions) = 1
            /\ \A e \in DOMAIN executions : executions'[e] = executions[e]
            /\ \A e \in DOMAIN executions' \ DOMAIN executions :
                    executions'[e].micro_unit_id = result'.id
            /\ Cardinality(ExecutionsOf(executions', result'.id))
                    = Cardinality(ExecutionsOf(executions, result'.id)) + 1]_vars

\* C11 witness: two complete_micro_unit calls on one unit, the second on the
\* already complete unit, left two Execution rows for it.
C11_Witness ==
    /\ result.op = "complete"
    /\ result.ok
    /\ micro_units[result.id].status = "complete"
    /\ Cardinality(ExecutionsOf(executions, result.id)) = 2

----------------------------------------------------------------------------
(* Properties of the bot *)

\* The last update came from the admin while the bot waited for a dump
\* (read in the state before the update is handled: state there, update' here)
DumpArrives == update'.user_id = ADMIN_USER_ID /\ StateOf(ADMIN_USER_ID) = "waiting_for_dump"

\* The dump text of the update being handled was processed before, and the
\* results of that call are cached
DumpRepeats == DumpArrives /\ get_text_hash(update'.text) \in DOMAIN dump_cache

\* C12: a dump text that is processed again is answered from the cache:
\* every voice message of the second call reports an OpenAI cost of zero,
\* and the task and unit counts it reports are the ones the first call
\* reported and cached; a cached entry never changes.
C12_RepeatedDumpCostsNothing ==
    [][/\ \A h \in DOMAIN dump_cache :
            h \in DOMAIN dump_cache' /\ dump_cache'[h] = dump_cache[h]
       /\ \A h \in DOMAIN dump_cache' \ DOMAIN dump_cache :
            /\ h = get_text_hash(update'.text)
            /\ dump_cache'[h] = [new_tasks |-> result'.new_tasks,
                                 total_micro_units |-> result'.total_micro_units]
       /\ DumpRepeats =>
            LET first == dump_cache[get_text_hash(update'.text)]
            IN  /\ result'.new_tasks = first.new_tasks
                /\ result'.total_micro_units = first.total_micro_units
                /\ \A i \in 1..Len(outbox') :
                    /\ outbox'[i].openai_cost = 0
                    /\ outbox'[i].text = Summary(first, 0).text]_vars

\* C12 witness: the same text was sent as a dump twice; the second answer
\* is "Created N tasks with M units" at cost zero.
C12_Witness ==
    /\ result.op = "cached_dump"
    /\ result.new_tasks > 0
    /\ result.total_micro_units > 0
    /\ Len(outbox) = 1
    /\ outbox[1].openai_cost = 0
    /\ outbox[1].text = Created(dump_cache[get_text_hash(update.text)])

\* C13: a hit of the dump cache skips the pipeline: while the repeated dump
\* is handled no OpenAI call (parse, priority, decompose) is made, no row of
\* any table is inserted or changed and no id is drawn.
C13_CacheHitSkipsPipeline ==
    [][DumpRepeats =>
            /\ oracle_calls' = 0
            /\ UNCHANGED <<tasks, micro_units, executions>>
            /\ UNCHANGED <<task_seq, unit_seq, exec_seq>>]_vars

\* C13 witness: a repeated dump was answered while the tables hold exactly
\* the tasks and units of its first processing.
C13_Witness ==
    /\ result.op = "cached_dump"
    /\ oracle_calls = 0
    /\ result.new_tasks > 0
    /\ Cardinality(DOMAIN tasks) = result.new_tasks
    /\ Cardinality(DOMAIN micro_units) = result.total_micro_units

\* /clear answered "All tasks cleared"
Cleared(r) == r.op = "clear" /\ r.say = "All tasks cleared"

\* C14: a /clear that succeeds leaves no Task, no MicroUnit and no
\* Execution row, whatever the tables held, and a get_next_action called
\* next returns None.
C14_ClearEmptiesStore ==
    [][/\ Cleared(result') =>
            /\ tasks' = <<>>
            /\ micro_units' = <<>>
            /\ executions' = <<>>
            /\ NextActionResults(tasks', micro_units') = {NoUnit}
       /\ (Cleared(result) /\ result'.op = "get_next_action") =>
            result'.unit = NoUnit]_vars

\* C14 witness: get_next_action returned None on the empty tables that a
\* /clear left of earlier tasks, units and executions.
C14_Witness ==
    /\ result.op = "get_next_action"
    /\ result.unit = NoUnit
    /\ task_seq > 0 /\ unit_seq > 0 /\ exec_seq > 0
    /\ tasks = <<>> /\ micro_units = <<>> /\ executions = <<>>

\* C15: handling a message of a sender other than the admin, whatever its
\* text and whatever conversation states are held, changes no conversation
\* state, no row of the store and neither cache, calls no oracle and sends
\* no voice message.
C15_UnauthorizedDropped ==
    [][(offset' = offset + 1 /\ update'.user_id # ADMIN_USER_ID) =>
            /\ UNCHANGED user_states
            /\ UNCHANGED <<tasks, micro_units, executions>>
            /\ UNCHANGED <<dump_cache, tts_cache>>
            /\ outbox' = <<>>
            /\ oracle_calls' = 0]_vars

\* C15 witness: another user sent /clear while the admin was asked for a
\* dump and the store held tasks; the tasks are there and nothing was said.
C15_Witness ==
    /\ update.user_id = OtherUserId
    /\ update.text.slash /\ update.text.word = "clear"
    /\ StateOf(ADMIN_USER_ID) = "waiting_for_dump"
    /\ tasks # <<>>
    /\ dump_cache # <<>>
    /\ outbox = <<>>

\* C16: a message of the admin that arrives while the bot waits for a dump
\* or for a text to speak leaves the admin idle when it has been handled,
\* whether tasks were created, none were found, the processing raised or
\* the synthesis failed.
C16_WaitingStateCleared ==
    [][(/\ offset' = offset + 1
        /\ update'.user_id = ADMIN_USER_ID
        /\ StateOf(ADMIN_USER_ID) \in {"waiting_for_dump", "waiting_for_tts"})
            => ADMIN_USER_ID \notin DOMAIN user_states']_vars

\* C16 witness: the processing of a dump raised, the error was said, and
\* the admin is idle.
C16_Witness ==
    /\ update.user_id = ADMIN_USER_ID
    /\ result.op = "process_dump"
    /\ result.say = "Error processing tasks"
    /\ needs_rollback
    /\ StateOf(ADMIN_USER_ID) = "idle"

\* A step in which the idle admin's /done was handled without an error.
DoneHandled ==
    /\ offset' = offset + 1
    /\ update'.user_id = ADMIN_USER_ID
    /\ StateOf(ADMIN_USER_ID) = "idle"
    /\ result'.op = "done"
    /\ result'.say # "Error completing task"

\* C17 (as stated): /done completes exactly the unit get_next_action would
\* return, with one successful Execution and no other unit touched, then
\* says the unit get_next_action returns on the new store, or "No more
\* tasks"; with no eligible unit it leaves the store as it was.
C17_DoneCompletesSelectNext ==
    [][DoneHandled =>
        IF PendingRows(tasks, micro_units) = {}
        THEN /\ result'.say = "No tasks to complete"
             /\ UNCHANGED <<tasks, micro_units, executions>>
        ELSE /\ \A e \in NextActionResults(tasks, micro_units) : result'.id = e
             /\ micro_units'[result'.id].status = "complete"
             /\ \A u \in DOMAIN micro_units \ {result'.id} :
                    micro_units'[u] = micro_units[u]
             /\ \E x \in DOMAIN executions' \ DOMAIN executions :
                    /\ DOMAIN executions' = DOMAIN executions \cup {x}
                    /\ executions'[x] = [micro_unit_id |-> result'.id, success |-> TRUE]
             /\ IF PendingRows(tasks', micro_units') = {}
                THEN result'.say = "No more tasks"
                ELSE \A e \in NextActionResults(tasks', micro_units') :
                        result'.list = <<e>>]_vars

\* C18 (as stated): in every committed store a task is complete exactly
\* when none of its units is pending.
C18_TaskCompleteIffNoPendingUnit ==
    \A t \in DOMAIN tasks :
        tasks[t].status = "complete"
            <=> ~\E u \in DOMAIN micro_units :
                    /\ micro_units[u].task_id = t
                    /\ micro_units[u].status = "pending"

\* An Execution row of unit u is in the table after the step and was not
\* before it.
LoggedInStep(u) ==
    \E x \in DOMAIN executions' \ DOMAIN executions :
        executions'[x].micro_unit_id = u

\* C19: complete_micro_unit is atomic, also when it raises between its
\* writes: in every committed store each complete unit has an Execution row
\* and each Execution row belongs to a complete unit; a step that makes a
\* unit complete adds its Execution row and vice versa, and a task becomes
\* complete only in the step that completes and logs one of its units.
C19_CompleteAtomic ==
    /\ [](/\ \A u \in DOMAIN micro_units :
                micro_units[u].status = "complete" => ExecutionsOf(executions, u) # {}
          /\ \A x \in DOMAIN executions :
                /\ executions[x].micro_unit_id \in DOMAIN micro_units
                /\ micro_units[executions[x].micro_unit_id].status = "complete")
    /\ [][/\ \A u \in DOMAIN micro_units \cap DOMAIN micro_units' :
                (micro_units[u].status # "complete" /\ micro_units'[u].status = "complete")
                    => LoggedInStep(u)
          /\ \A t \in DOMAIN tasks \cap DOMAIN tasks' :
                (tasks[t].status # "complete" /\ tasks'[t].status = "complete")
                    => \E u \in DOMAIN micro_units' :
                            /\ micro_units'[u].task_id = t
                            /\ micro_units'[u].status = "complete"
                            /\ LoggedInStep(u)]_vars

\* C19 witness: a complete_micro_unit call raised when its flush had
\* executed the INSERT of the Execution row (the id is drawn), and the
\* unit is still not complete and has no Execution row.
C19_Witness ==
    /\ result.op = "complete_raised"
    /\ exec_seq = 1
    /\ executions = <<>>
    /\ result.id \in DOMAIN micro_units
    /\ micro_units[result.id].status = "active"

\* C20: /clear is all-or-nothing: a /clear that raised in one of its three
\* deletions or in its commit leaves every Task, MicroUnit and Execution
\* row as it was, and a /clear that did not raise leaves none.
C20_ClearAllOrNothing ==
    [][(update'.text.word = "clear" /\ result'.op = "clear") =>
            IF result'.say = "Error clearing tasks"
            THEN UNCHANGED <<tasks, micro_units, executions>>
            ELSE tasks' = <<>> /\ micro_units' = <<>> /\ executions' = <<>>]_vars

\* C20 witness: a /clear on a usable session raised, and the store still
\* holds a task, a complete unit and its Execution row.
C20_Witness ==
    /\ update.text.word = "clear"
    /\ result.op = "clear"
    /\ result.say = "Error clearing tasks"
    /\ tasks # <<>>
    /\ \E x \in DOMAIN executions :
            micro_units[executions[x].micro_unit_id].status = "complete"

\* The conversation states of handle_message
ConversationStates == {"idle", "waiting_for_dump", "waiting_for_tts"}

\* C21: the admin's conversation state is always idle, waiting_for_dump or
\* waiting_for_tts.  A message handled in idle moves it to waiting_for_dump
\* on /dump, saying the prompt, and to waiting_for_tts on /tts; any other
\* command, an unknown command and a text that is no command leave it idle,
\* the last two answered with their fixed phrase.
C21_ConversationStates ==
    /\ [](StateOf(ADMIN_USER_ID) \in ConversationStates)
    /\ [][(/\ offset' = offset + 1
           /\ update'.user_id = ADMIN_USER_ID
           /\ StateOf(ADMIN_USER_ID) = "idle")
            => LET text == update'.text
                   state == IF ADMIN_USER_ID \in DOMAIN user_states'
                            THEN user_states'[ADMIN_USER_ID] ELSE "idle"
               IN  IF text.slash /\ text.word = "dump"
                   THEN state = "waiting_for_dump" /\ result'.say = "Send me your task dump"
                   ELSE IF text.slash /\ text.word = "tts"
                   THEN state = "waiting_for_tts"
                   ELSE /\ state = "idle"
                        /\ ~text.slash => result'.say = "Use slash commands"
                        /\ (text.slash /\ text.word \notin CommandWords)
                                => result'.say = "Unknown command"]_vars

\* C21 witness: the idle admin sent an unknown command, was told so, and is
\* idle.
C21_Witness ==
    /\ update.user_id = ADMIN_USER_ID
    /\ update.text.slash
    /\ update.text.word \notin CommandWords
    /\ result.say = "Unknown command"
    /\ StateOf(ADMIN_USER_ID) = "idle"

\* The place of a status in the order pending < active < complete
Rank(status) ==
    IF status = "pending" THEN 0 ELSE IF status = "active" THEN 1 ELSE 2

\* C22: across start_micro_unit and complete_micro_unit calls no unit's
\* status moves backward along pending < active < complete.
C22_UnitStatusForward ==
    [][\A u \in DOMAIN micro_units \cap DOMAIN micro_units' :
            Rank(micro_units'[u].status) >= Rank(micro_units[u].status)]_vars

\* C22 witness: start_micro_unit was called on a complete unit, refused,
\* and the unit is complete.
C22_Witness ==
    /\ result.op = "start"
    /\ ~result.ok
    /\ result.id \in DOMAIN micro_units
    /\ micro_units[result.id].status = "complete"

\* C23: a task that is complete stays complete, whatever is called next:
\* start_micro_unit, which sets the owning task active without looking at
\* its status, finds no pending unit of a complete task to start.
C23_TaskStatusForward ==
    [][\A t \in DOMAIN tasks \cap DOMAIN tasks' :
            tasks[t].status = "complete" => tasks'[t].status = "complete"]_vars

\* C23 witness: start_micro_unit was called on a unit of a complete task,
\* refused, and the task is complete.
C23_Witness ==
    /\ result.op = "start"
    /\ ~result.ok
    /\ result.id \in DOMAIN micro_units
    /\ tasks[micro_units[result.id].task_id].status = "complete"

\* C24: in every committed store each MicroUnit row names a Task row and
\* each Execution row names a MicroUnit row, also after a /clear or a dump
\* that raised part-way.
C24_ReferentialIntegrity ==
    /\ \A u \in DOMAIN micro_units : micro_units[u].task_id \in DOMAIN tasks
    /\ \A x \in DOMAIN executions : executions[x].micro_unit_id \in DOMAIN micro_units

\* C24 witness: a /clear raised, and the store holds an Execution row, the
\* unit it names and the task that unit names.
C24_Witness ==
    /\ result.op = "clear"
    /\ result.say = "Error clearing tasks"
    /\ \E x \in DOMAIN executions :
            /\ executions[x].micro_unit_id \in DOMAIN micro_units
            /\ micro_units[executions[x].micro_unit_id].task_id \in DOMAIN tasks

----------------------------------------------------------------------------
(* Properties of the two caches *)

\* The two texts are the same after preprocess_text
SameCleanText(a, b) == preprocess_text(FreeText(a)) = preprocess_text(FreeText(b))

\* C25 (as stated): both caches are keyed by the text after normalization:
\* a dump that follows a processed dump with the same clean text is a cache
\* hit, and a text spoken after a spoken text with the same clean text is
\* sent from the cached audio, without a call and at no synthesis cost.
C25_KeysFromNormalizedText ==
    [][/\ (/\ result.op \in {"process_dump", "cached_dump"}
           /\ result.say # "Error processing tasks"
           /\ result'.op \in {"process_dump", "cached_dump"}
           /\ SameCleanText(update.text, update'.text))
                => result'.op = "cached_dump"
       /\ (/\ result.op = "tts_text"
           /\ outbox # <<>>
           /\ result'.op = "tts_text"
           /\ SameCleanText(update.text, update'.text))
                => /\ result'.log = ""
                   /\ Len(outbox') = 1
                   /\ outbox'[1].fish_cost = 0]_vars

\* The key send_voice_message looks up for a message text
VoiceKey(text) == get_text_hash(preprocess_text(FreeText(text)))

\* The cache holds an entry for the text and the file it names exists
Retrievable(text) ==
    VoiceKey(text) \in DOMAIN tts_cache /\ tts_cache[VoiceKey(text)] \in media

\* What C26 says of one spoken text: the TTS service is called exactly
\* when there is no entry with a retrievable file; a hit is sent at no
\* synthesis cost and changes nothing; after a call that yields audio the
\* entry names a file that was not there before.
SynthesisOnMissOnly(text) ==
    /\ result'.log = "Attempting TTS" <=> ~Retrievable(text)
    /\ Retrievable(text) =>
            /\ Len(outbox') = 1
            /\ outbox'[1].fish_cost = 0
            /\ UNCHANGED <<tts_cache, media>>
    /\ (result'.log = "Attempting TTS" /\ outbox' # <<>>) =>
            /\ outbox'[1].fish_cost = FishCost
            /\ tts_cache'[VoiceKey(text)] \in media' \ media
    /\ (result'.log = "Attempting TTS" /\ outbox' = <<>>) =>
            UNCHANGED <<tts_cache, media>>

\* C26 (as stated): for every spoken text.
C26_Original ==
    [][result'.op = "tts_text" => SynthesisOnMissOnly(update'.text)]_vars

\* C26 (amended): for every spoken text of which preprocess_text leaves
\* something; a text of which it leaves nothing is dropped, with no call,
\* no message and no change to the cache.
C26_SynthesisOnMissOnly ==
    [][result'.op = "tts_text" =>
            IF IsEmptyText(preprocess_text(FreeText(update'.text)))
            THEN /\ result'.log = ""
                 /\ outbox' = <<>>
                 /\ UNCHANGED <<tts_cache, media>>
            ELSE SynthesisOnMissOnly(update'.text)]_vars

\* C26 witness: the audio of a text was made a second time, after its
\* first file was gone, and the cache names the new file.
C26_Witness ==
    /\ result.op = "tts_text"
    /\ result.log = "Attempting TTS"
    /\ Retrievable(update.text)
    /\ tts_cache[VoiceKey(update.text)].stamp = MaxStamp

----------------------------------------------------------------------------
(* Properties of process_dump under failures *)

\* C27: a dump whose flush or commit raised leaves no row behind: the
\* failing step changes no table, and a row id that a sequence has handed
\* out and that is not in its table (the id of a row flushed by a failed
\* dump, or of a deleted row) is in no later store, whatever commits next.
C27_FailedDumpNeverCommitted ==
    [][/\ (result'.op = "process_dump" /\ result'.say = "Error processing tasks")
            => UNCHANGED <<tasks, micro_units, executions>>
       /\ \A t \in 1..task_seq : t \notin DOMAIN tasks => t \notin DOMAIN tasks'
       /\ \A u \in 1..unit_seq : u \notin DOMAIN micro_units => u \notin DOMAIN micro_units'
      ]_vars

\* C27 witness: a dump failed after a candidate of it had been flushed (the
\* calls for a second candidate, or all calls, were made), and the task id
\* that candidate drew is not in the table.
C27_Witness ==
    /\ result.op = "process_dump"
    /\ result.say = "Error processing tasks"
    /\ oracle_calls >= 3
    /\ task_seq >= 1
    /\ task_seq \notin DOMAIN tasks

\* The admin's dump is processed, not answered from the cache, and the
\* store calls do not raise.
DumpProcessed ==
    /\ offset' = offset + 1
    /\ update'.user_id = ADMIN_USER_ID
    /\ StateOf(ADMIN_USER_ID) = "waiting_for_dump"
    /\ result'.op = "process_dump"
    /\ result'.say # "Error processing tasks"

NoTasksPhrase == Phrase("No tasks could be extracted from your input")

\* C28: when the parse call fails or its answer cannot be parsed (the only
\* oracle call of the dump is the parse call), the dump is processed as one
\* without candidates: no row is written, new_tasks is 0, the answer is
\* "No tasks could be extracted from your input", and the admin is idle.
C28_ParseFailureIsEmptyDump ==
    [][(DumpProcessed /\ oracle_calls' = 1) =>
            /\ UNCHANGED <<tasks, micro_units, executions>>
            /\ result'.new_tasks = 0
            /\ result'.total_micro_units = 0
            /\ ADMIN_USER_ID \notin DOMAIN user_states'
            /\ \A i \in 1..Len(outbox') :
                    outbox'[i].text \in {Phrase("Processing tasks"), NoTasksPhrase}
            /\ get_text_hash(preprocess_text(NoTasksPhrase)) \in DOMAIN tts_cache'
                    => /\ outbox' # <<>>
                       /\ outbox'[Len(outbox')].text = NoTasksPhrase]_vars

\* C28 witness: the parse call of a dump failed (it cost nothing), and the
\* admin was told that no tasks could be extracted and is idle.
C28_Witness ==
    /\ result.op = "process_dump"
    /\ oracle_calls = 1
    /\ outbox # <<>>
    /\ outbox[Len(outbox)].text = NoTasksPhrase
    /\ outbox[Len(outbox)].openai_cost = 0
    /\ StateOf(ADMIN_USER_ID) = "idle"
    /\ tasks = <<>>

\* The units of task t in the table U
UnitsOfTask(U, t) == {u \in DOMAIN U : U[u].task_id = t}

\* C29: a failed priority or decomposition call touches its own candidate
\* only.  Whatever the oracles answer for the other candidates of a dump,
\* candidate k becomes task task_seq + k, with the clamped score of its own
\* priority call, or 50 when that call failed, and with one unit per unit
\* of its own decomposition, none when that call failed; every priority is
\* in 1..100.
C29_OracleFailuresIsolated ==
    [][result'.op = "process_dump" =>
        \A parsed_tasks \in ParsedDumps(MaxTasks - task_seq) :
            ProcessDumpWithCostOn(parsed_tasks) =>
                \A k \in 1..Len(parsed_tasks) :
                    LET cand == parsed_tasks[k]
                        t == task_seq + k
                    IN  /\ t \in DOMAIN tasks'
                        /\ tasks'[t].priority \in MinPriority..MaxPriority
                        /\ tasks'[t].priority =
                                IF cand.priority.ok
                                THEN Max(MinPriority, Min(MaxPriority, cand.priority.score))
                                ELSE DefaultPriority
                        /\ Cardinality(UnitsOfTask(micro_units', t)) =
                                IF cand.decompose.ok THEN Len(cand.decompose.units) ELSE 0
      ]_vars

\* C29 witness: the priority call failed for the first candidate of a dump
\* (priority 50, no unit) and the second candidate was persisted with its
\* own priority and a unit.
C29_Witness ==
    /\ result.op = "process_dump"
    /\ result.new_tasks = 2
    /\ DOMAIN tasks = {1, 2}
    /\ tasks[1].priority = DefaultPriority
    /\ UnitsOfTask(micro_units, 1) = {}
    /\ tasks[2].priority = MaxPriority
    /\ UnitsOfTask(micro_units, 2) # {}

----------------------------------------------------------------------------
(* Properties of the duplicate search *)

\* C30: duplicate detection is advisory only.  Whatever the searches of a
\* dump did (returned rows, returned none, failed), the process call
\* creates one task per parsed candidate and reports that number as
\* new_tasks.
C30_DuplicatesAdvisoryOnly ==
    [][\A parsed_tasks \in ParsedDumps(MaxTasks - task_seq) :
        \A similar \in Searches(parsed_tasks) :
            (~needs_rollback /\ ProcessDumpSearching(parsed_tasks, similar)) =>
                /\ Cardinality(DOMAIN tasks' \ DOMAIN tasks) = Len(parsed_tasks)
                /\ result'.new_tasks = Len(parsed_tasks)
      ]_vars

\* C31: find_duplicates returns only pending or active tasks whose
\* relevance is above the threshold, at most 5 of them, in order of
\* descending relevance; a failed search gives the empty result.
C31_FindDuplicatesResult ==
    result.op = "find_similar" =>
        /\ \A i \in 1..Len(result.list) :
                /\ tasks[result.list[i]].status \in {"pending", "active"}
                /\ tasks[result.list[i]].rank > RankThreshold
        /\ Len(result.list) <= SearchLimit
        /\ \A i, j \in 1..Len(result.list) :
                i < j => tasks[result.list[i]].rank >= tasks[result.list[j]].rank
        /\ ~result.ok => result.list = <<>>

----------------------------------------------------------------------------
(* Properties of the polling loop *)

\* The ids of s grow from each entry to the next
Increasing(s) == \A i, j \in 1..Len(s) : i < j => s[i] < s[j]

\* C32: within one run of the polling loop the cursor never decreases, the
\* messages are given to the handler in arrival order and each at most
\* once, the cursor is past every update given to the handler, and no
\* update given to the handler, failed or not, is in a batch again.
C32_CursorAtMostOnce ==
    /\ [](/\ Increasing(polling.handled)
          /\ \A i \in 1..Len(polling.handled) : polling.handled[i] < offset
          /\ \A k \in 1..Len(polling.updates) :
                /\ polling.updates[k].update_id >= offset
                /\ polling.updates[k].update_id \notin polling.failed
                /\ \A i \in 1..Len(polling.handled) :
                        polling.updates[k].update_id # polling.handled[i])
    /\ [][offset' >= offset]_vars

\* C32 witness: after an update's handler failed, a later request was
\* answered with a batch, and the batch before it held several messages
C32_Witness ==
    /\ result.op = "get_updates"
    /\ result.ok
    /\ polling.updates # <<>>
    /\ polling.failed # {}
    /\ Len(polling.handled) >= 2

\* The update with this id is in the batch being iterated and has a message
FetchedMessage(update_id) ==
    \E k \in 1..Len(polling.updates) :
        /\ polling.updates[k].update_id = update_id
        /\ polling.updates[k].message.kind # "none"

\* The update with this id was given to handle_message
Dispatched(update_id) ==
    \E i \in 1..Len(polling.handled) : polling.handled[i] = update_id

\* C33: the polling loop survives failures.  A failed request leaves an
\* empty batch and the loop at its top, where it asks again; a handler
\* that raises leaves the loop running; the loop is left only after stop()
\* or by an interrupt; and while the loop's thread runs, every message of
\* a fetched batch is given to the handler, also after one whose handler
\* failed, unless an interrupt ends the loop first.
C33_LoopSurvives ==
    /\ [][(result'.op = "get_updates" /\ ~result'.ok) =>
            (polling'.updates = <<>> /\ polling'.pc = "polling")]_vars
    /\ [][(polling.pc = "polling" /\ polling'.pc # "polling") =>
            (result'.op = "interrupt" \/ ~polling.running)]_vars
    /\ \A update_id \in 0..(MaxUpdates - 1) :
            FetchedMessage(update_id) ~>
                (Dispatched(update_id) \/ polling.pc = "interrupted")

\* C33 witness: the handler failed for one message and a later message
\* was handled, the loop still running
C33_Witness ==
    /\ polling.pc = "polling"
    /\ polling.running
    /\ Len(polling.handled) >= 2
    /\ polling.handled[1] \in polling.failed
    /\ polling.handled[Len(polling.handled)] \notin polling.failed
    /\ result.op \in {"text", "dropped"}

----------------------------------------------------------------------------
(* Properties of the dispatch on the conversation state *)

\* C34: the state takes precedence over commands.  While the admin is in
\* waiting_for_dump or waiting_for_tts, a text that is a command (/clear,
\* /done, /dump, /tts) is processed as the dump or as the text to speak:
\* no row is deleted or changed, no execution is recorded, and the admin
\* is idle afterwards.
C34_StateBeforeCommands ==
    [][(/\ offset' = offset + 1
        /\ update'.user_id = ADMIN_USER_ID
        /\ StateOf(ADMIN_USER_ID) \in {"waiting_for_dump", "waiting_for_tts"}
        /\ update'.text.slash)
            => /\ result'.op = IF StateOf(ADMIN_USER_ID) = "waiting_for_tts"
                               THEN "tts_text"
                               ELSE IF get_text_hash(update'.text) \in DOMAIN dump_cache
                                    THEN "cached_dump" ELSE "process_dump"
               /\ executions' = executions
               /\ completed' = completed
               /\ \A t \in DOMAIN tasks : t \in DOMAIN tasks' /\ tasks'[t] = tasks[t]
               /\ \A u \in DOMAIN micro_units :
                        u \in DOMAIN micro_units' /\ micro_units'[u] = micro_units[u]
               /\ ADMIN_USER_ID \notin DOMAIN user_states'
      ]_vars

\* C34 witness: the bot waited for a dump, the store held a pending unit,
\* /clear arrived and was processed as a dump of which nothing was parsed;
\* the unit is still there.
C34_Witness ==
    /\ update.user_id = ADMIN_USER_ID
    /\ update.text.slash
    /\ update.text.word = "clear"
    /\ result.op = "process_dump"
    /\ result.new_tasks = 0
    /\ \E u \in DOMAIN micro_units : micro_units[u].status = "pending"

----------------------------------------------------------------------------
(* Properties of the tasks a dump leaves *)

\* C35: every task the dump processor has persisted owns at least one
\* micro-unit, also when its decomposition call failed or answered [].
C35_EveryTaskHasUnit ==
    \A t \in DOMAIN tasks : UnitsOfTask(micro_units, t) # {}

\* C36: whenever a dump is answered with "Created N tasks with M units",
\* N > 0, the store holds N tasks and M units of that dump right after the
\* answer, also when the dump was processed before and /clear came between.
C36_CreatedMeansStored ==
    \A i \in 1..Len(outbox) :
        (/\ result.op \in {"process_dump", "cached_dump"}
         /\ result.new_tasks > 0
         /\ outbox[i].text = Created([new_tasks |-> result.new_tasks,
                                      total_micro_units |-> result.total_micro_units]))
            => /\ Cardinality(DOMAIN tasks) >= result.new_tasks
               /\ Cardinality(DOMAIN micro_units) >= result.total_micro_units

====
